---- MODULE Spec2Model ----
(***************************************************************************)
(* A model of the widget runtime of 'The Hundred Years War':               *)
(*   - the slot-recycling arena            (src/src/arena.rs)              *)
(*   - the two-buffer action scheduler     (src/src/ui/action.rs)          *)
(*   - listeners and their notifications   (src/src/ui/event.rs)           *)
(*   - mouse targets and the button        (src/src/ui/mouse.rs, button.rs)*)
(*   - the container layout                (src/src/ui/container.rs)       *)
(*   - the widget manager and decoration   (src/src/ui/widget.rs)          *)
(*   - the spatial component               (src/src/ui/spatial.rs)         *)
(* Ids are 0-based as in the source; a Vec is a TLA+ sequence, so the slot *)
(* of id i is element i + 1.                                               *)
(***************************************************************************)
EXTENDS Integers, Sequences, FiniteSets, TLC

\* the arenas and their iterator
VARIABLES arenas, last, iter, panicked
\* Actions: its fields and the position of a running Actions::execute
VARIABLES scheduler, buffer, max_runs, run, pc, pos, result
\* what has happened so far: rounds begun, actions created and run
VARIABLES round, callRounds, callStart, nextUid, log, roundBuf

arenaVars == <<arenas, last, iter, panicked>>

actionVars == <<scheduler, buffer, max_runs, run, pc, pos, result,
                round, callRounds, callStart, nextUid, log, roundBuf>>

\* Listeners<E> and the System its notifications are scheduled on
VARIABLES listeners, held, system, sysAlive, lpc, lpos, lround
\* what has happened so far: objects created, callbacks invoked, actions executed
VARIABLES nextListener, nextEvent, invoked, executed, lastNotify

listenerVars == <<listeners, held, system, sysAlive, lpc, lpos, lround,
                  nextListener, nextEvent, invoked, executed, lastNotify>>

\* a widget decorated as a button: Button, MouseOverTarget and the queue of
\* the handler actions scheduled for it
VARIABLES pressed, highlighted, within, handlerQueue
\* what has happened so far: inputs notified, events emitted, presses handled
VARIABLES inputs, clicks, overs, armed, lastHandled

buttonVars == <<pressed, highlighted, within, handlerQueue,
                inputs, clicks, overs, armed, lastHandled>>

\* a Container, its own Shape, the Shapes of its children and the queue of
\* the notifications scheduled on the System
VARIABLES shape, rows, shapes, notifyQueue
\* what has happened so far: moves and resizes made, the last layout run
VARIABLES changes, lastLayout

layoutVars == <<shape, rows, shapes, notifyQueue, changes, lastLayout>>

\* the Manager of the widgets and their components, the hover targets kept
\* beside it, and what the last call made through a WidgetBuilder or a Context
\* was and returned
VARIABLES manager, hover, sets, lastManager

managerVars == <<manager, hover, sets, lastManager>>

\* one Spatial, the actions scheduled on the Context and the last call made
VARIABLES spatial, context, lastSpatial

spatialVars == <<spatial, context, lastSpatial>>

\* a set of named resources and the last call made on it
VARIABLES resources, lastResource

resourceVars == <<resources, lastResource>>

\* nested containers: the shapes, the containers, the buffer the system
\* schedules into and the buffer it executes, the change that started the
\* cascade, the rounds begun, how the update cycle ended, whether a borrow was
\* refused, the last result
VARIABLES nshapes, ncontainers, nactive, nqueue, nchange, nround, nerror, nconflict,
          lastNest

nestVars == <<nshapes, ncontainers, nactive, nqueue, nchange, nround, nerror, nconflict,
              lastNest>>

uiVars == <<listenerVars, buttonVars, layoutVars, managerVars, spatialVars, resourceVars,
            nestVars>>

notListenerVars == <<arenaVars, actionVars, buttonVars, layoutVars, managerVars, spatialVars, resourceVars,
    nestVars>>

notButtonVars == <<arenaVars, actionVars, listenerVars, layoutVars, managerVars, spatialVars, resourceVars,
    nestVars>>

notLayoutVars == <<arenaVars, actionVars, listenerVars, buttonVars, managerVars, spatialVars, resourceVars,
    nestVars>>

notManagerVars == <<arenaVars, actionVars, listenerVars, buttonVars, layoutVars, spatialVars, resourceVars,
    nestVars>>

notResourceVars == <<arenaVars, actionVars, listenerVars, buttonVars, layoutVars, managerVars, spatialVars,
    nestVars>>

notNestVars == <<arenaVars, actionVars, listenerVars, buttonVars, layoutVars, managerVars,
    spatialVars, resourceVars>>

notSpatialVars == <<arenaVars, actionVars, listenerVars, buttonVars, layoutVars, managerVars, resourceVars,
    nestVars>>

vars == <<arenaVars, actionVars, uiVars>>

(***************************************************************************)
(* Bounds of the model.                                                    *)
(***************************************************************************)
\* the longest buffer an arena grows to
MaxLen == 3
\* objects stored in an arena are 1 .. MaxVal
MaxVal == 2
\* how many times next() is called on an exhausted iterator
MaxNones == 2

Values == 1 .. MaxVal
\* ids passed to get / get_mut / remove: in range and out of range
Ids == 0 .. MaxLen
ArenaNames == {"first", "second"}

(***************************************************************************)
(* Option<T>                                                               *)
(***************************************************************************)
None == <<>>
Some(v) == <<v>>
IsSome(o) == o # None
IsNone(o) == o = None

Min(S) == CHOOSE x \in S : \A y \in S : x <= y
Max(S) == CHOOSE x \in S : \A y \in S : x >= y
\* Vec::pop
Front(s) == SubSeq(s, 1, Len(s) - 1)
\* BTreeSet::pop_last, dropping the popped element
PopLast(S) == IF S = {} THEN S ELSE S \ {Max(S)}

(***************************************************************************)
(* Arena<T>                                                                *)
(***************************************************************************)
\* Arena::new
ArenaNew == [buffer |-> <<>>, free |-> {}]

\* self.buffer[id]
At(ar, id) == ar.buffer[id + 1]

\* Arena::insert with free.pop_last in place of free.pop_first
InsertPopLast(ar, object) ==
    IF ar.free # {}
    THEN LET id == Max(ar.free) IN
         IF id < Len(ar.buffer)
         THEN [arena |-> [buffer |-> [ar.buffer EXCEPT ![id + 1] = Some(object)],
                          free |-> ar.free \ {id}],
               ret |-> id, panic |-> FALSE]
         ELSE [arena |-> ar, ret |-> id, panic |-> TRUE]
    ELSE [arena |-> [buffer |-> Append(ar.buffer, Some(object)), free |-> ar.free],
          ret |-> Len(ar.buffer), panic |-> FALSE]

\* Arena::insert: the id, the arena afterwards and whether the indexing panicked
Insert(ar, object) ==
    IF ar.free # {}
    THEN LET id == Min(ar.free) IN
         IF id < Len(ar.buffer)
         THEN [arena |-> [buffer |-> [ar.buffer EXCEPT ![id + 1] = Some(object)],
                          free |-> ar.free \ {id}],
               ret |-> id, panic |-> FALSE]
         ELSE [arena |-> ar, ret |-> id, panic |-> TRUE]
    ELSE [arena |-> [buffer |-> Append(ar.buffer, Some(object)), free |-> ar.free],
          ret |-> Len(ar.buffer), panic |-> FALSE]

\* Arena::get written with an index expression instead of Vec::get
GetUnchecked(ar, id) ==
    IF id < Len(ar.buffer)
    THEN [ret |-> At(ar, id), panic |-> FALSE]
    ELSE [ret |-> None, panic |-> TRUE]

\* Arena::get (get_mut reads the same slot)
Get(ar, id) ==
    IF id < Len(ar.buffer)
    THEN [ret |-> At(ar, id), panic |-> FALSE]
    ELSE [ret |-> None, panic |-> FALSE]

\* the while loop of Arena::recycle_id
RECURSIVE Cascade(_)
Cascade(ar) ==
    IF Len(ar.buffer) # 0 /\ IsNone(ar.buffer[Len(ar.buffer)])
    THEN Cascade([buffer |-> Front(ar.buffer), free |-> PopLast(ar.free)])
    ELSE ar

\* the while loop of recycle_id testing the free set instead of the slot
RECURSIVE CascadeWhileFree(_)
CascadeWhileFree(ar) ==
    IF Len(ar.buffer) # 0 /\ ar.free # {}
    THEN CascadeWhileFree([buffer |-> Front(ar.buffer), free |-> PopLast(ar.free)])
    ELSE ar

\* recycle_id popping the freed slot only, without the while loop
RecycleIdNoCascade(ar, id) ==
    IF id = Len(ar.buffer) - 1
    THEN [buffer |-> Front(ar.buffer), free |-> ar.free]
    ELSE [buffer |-> ar.buffer, free |-> ar.free \cup {id}]

\* recycle_id with the loop condition on the free set
RecycleIdWhileFree(ar, id) ==
    IF id = Len(ar.buffer) - 1
    THEN CascadeWhileFree([buffer |-> Front(ar.buffer), free |-> ar.free])
    ELSE [buffer |-> ar.buffer, free |-> ar.free \cup {id}]

\* the while loop of recycle_id without free.pop_last
RECURSIVE CascadeKeepFree(_)
CascadeKeepFree(ar) ==
    IF Len(ar.buffer) # 0 /\ IsNone(ar.buffer[Len(ar.buffer)])
    THEN CascadeKeepFree([buffer |-> Front(ar.buffer), free |-> ar.free])
    ELSE ar

\* recycle_id popping the trailing holes but leaving their ids in the free set
RecycleIdKeepFree(ar, id) ==
    IF id = Len(ar.buffer) - 1
    THEN CascadeKeepFree([buffer |-> Front(ar.buffer), free |-> ar.free])
    ELSE [buffer |-> ar.buffer, free |-> ar.free \cup {id}]

\* Arena::recycle_id, called once the slot of id has been emptied
RecycleId(ar, id) ==
    IF id = Len(ar.buffer) - 1
    THEN Cascade([buffer |-> Front(ar.buffer), free |-> ar.free])
    ELSE [buffer |-> ar.buffer, free |-> ar.free \cup {id}]

\* Arena::remove
Remove(ar, id) ==
    IF id < Len(ar.buffer)
    THEN LET value == At(ar, id)
             taken == [buffer |-> [ar.buffer EXCEPT ![id + 1] = None], free |-> ar.free]
         IN [arena |-> IF IsSome(value) THEN RecycleId(taken, id) ELSE taken,
             ret |-> value]
    ELSE [arena |-> ar, ret |-> None]

\* the values of the occupied slots in slot order, holes dropped
RECURSIVE Compact(_)
Compact(buf) ==
    IF buf = <<>> THEN <<>>
    ELSE IF IsSome(Head(buf)) THEN <<Head(buf)>> \o Compact(Tail(buf))
    ELSE Compact(Tail(buf))

\* an equality that compares the stored objects and forgets their slots
ArenaEqCompact(a, b) == Compact(a.buffer) = Compact(b.buffer)

\* impl PartialEq for Arena: Vec equality of the two buffers
ArenaEq(a, b) ==
    /\ Len(a.buffer) = Len(b.buffer)
    /\ \A i \in 1 .. Len(a.buffer) : a.buffer[i] = b.buffer[i]

\* Arena::iter
IterNew(name) == [active |-> TRUE, arena |-> name, next_id |-> 0,
                  yielded |-> <<>>, nones |-> 0]

\* Iterator::next that returns the slot it reads, occupied or not
NextNoSkip(ar, next_id) ==
    IF next_id >= Len(ar.buffer)
    THEN [next_id |-> next_id, ret |-> None, id |-> next_id]
    ELSE [next_id |-> next_id + 1, ret |-> At(ar, next_id), id |-> next_id]

\* Iterator::next: the loop runs until an occupied slot or the end
RECURSIVE IterNextFrom(_, _)
IterNextFrom(ar, next_id) ==
    IF next_id >= Len(ar.buffer)
    THEN [next_id |-> next_id, ret |-> None, id |-> next_id]
    ELSE IF IsSome(At(ar, next_id))
         THEN [next_id |-> next_id + 1, ret |-> At(ar, next_id), id |-> next_id]
         ELSE IterNextFrom(ar, next_id + 1)

NoIter == [active |-> FALSE, arena |-> "first", next_id |-> 0,
           yielded |-> <<>>, nones |-> 0]

\* an iterator borrows its arena: a &mut self call ends its life
DropIter(name) == IF iter.active /\ iter.arena = name THEN NoIter ELSE iter

\* what the last call was and what it returned
Call(op, name, id, val, retId, retOpt, retBool) ==
    [op |-> op, arena |-> name, id |-> id, val |-> val,
     retId |-> retId, retOpt |-> retOpt, retBool |-> retBool]

\* two arenas fresh from Arena::new
ArenasNew ==
    /\ arenas = [n \in ArenaNames |-> ArenaNew]
    /\ last = Call("new", "first", 0, 0, 0, None, FALSE)
    /\ iter = NoIter
    /\ panicked = FALSE

\* arena.insert(object)
DoInsert(name, object) ==
    LET r == Insert(arenas[name], object) IN
    /\ ~panicked
    /\ arenas[name].free = {} => Len(arenas[name].buffer) < MaxLen
    /\ arenas' = [arenas EXCEPT ![name] = r.arena]
    /\ last' = Call("insert", name, 0, object, r.ret, None, FALSE)
    /\ panicked' = r.panic
    /\ iter' = DropIter(name)
    /\ UNCHANGED <<actionVars, uiVars>>

\* arena.get(id)
DoGet(name, id) ==
    LET r == Get(arenas[name], id) IN
    /\ ~panicked
    /\ last' = Call("get", name, id, 0, 0, r.ret, FALSE)
    /\ panicked' = r.panic
    /\ UNCHANGED <<arenas, iter>>
    /\ UNCHANGED <<actionVars, uiVars>>

\* arena.get_mut(id), the reference only read
DoGetMut(name, id) ==
    LET r == Get(arenas[name], id) IN
    /\ ~panicked
    /\ last' = Call("get_mut", name, id, 0, 0, r.ret, FALSE)
    /\ panicked' = r.panic
    /\ iter' = DropIter(name)
    /\ UNCHANGED arenas
    /\ UNCHANGED <<actionVars, uiVars>>

\* *arena.get_mut(id).unwrap() = object, as in tests::arena_get_mut
DoGetMutWrite(name, id, object) ==
    LET r == Get(arenas[name], id) IN
    /\ ~panicked
    /\ IsSome(r.ret)
    /\ arenas' = [arenas EXCEPT ![name].buffer[id + 1] = Some(object)]
    /\ last' = Call("write", name, id, object, 0, r.ret, FALSE)
    /\ panicked' = r.panic
    /\ iter' = DropIter(name)
    /\ UNCHANGED <<actionVars, uiVars>>

\* arena.remove(id)
DoRemove(name, id) ==
    LET r == Remove(arenas[name], id) IN
    /\ ~panicked
    /\ arenas' = [arenas EXCEPT ![name] = r.arena]
    /\ last' = Call("remove", name, id, 0, 0, r.ret, FALSE)
    /\ iter' = DropIter(name)
    /\ UNCHANGED panicked
    /\ UNCHANGED <<actionVars, uiVars>>

\* first == second
DoEq ==
    /\ ~panicked
    /\ last' = Call("eq", "first", 0, 0, 0, None, ArenaEq(arenas["first"], arenas["second"]))
    /\ UNCHANGED <<arenas, iter, panicked>>
    /\ UNCHANGED <<actionVars, uiVars>>

\* let mut i = arena.iter()
DoIter(name) ==
    /\ ~panicked
    /\ iter' = IterNew(name)
    /\ last' = Call("iter", name, 0, 0, 0, None, FALSE)
    /\ UNCHANGED <<arenas, panicked>>
    /\ UNCHANGED <<actionVars, uiVars>>

\* i.next()
DoIterNext ==
    LET r == IterNextFrom(arenas[iter.arena], iter.next_id) IN
    /\ ~panicked
    /\ iter.active
    /\ iter.nones < MaxNones
    /\ iter' = [iter EXCEPT !.next_id = r.next_id,
                            !.yielded = IF IsSome(r.ret)
                                        THEN Append(@, <<r.id, r.ret[1]>>) ELSE @,
                            !.nones = IF IsSome(r.ret) THEN @ ELSE @ + 1]
    /\ last' = Call("next", iter.arena, 0, 0, 0, r.ret, FALSE)
    /\ UNCHANGED <<arenas, panicked>>
    /\ UNCHANGED <<actionVars, uiVars>>

(***************************************************************************)
(* Action, Scheduler and Actions                                           *)
(***************************************************************************)
\* the longest chain of dependent actions
MaxChain == 3
\* max_runs is 0 .. MaxMaxRuns
MaxMaxRuns == 2
\* action objects created in one behaviour
MaxActions == 4
\* rounds run in one behaviour
MaxRounds == 5

\* The implementations of Action::execute the scheduler is driven with:
\*   chain n  schedules chain n-1 (n > 1) and returns Ok
\*   again    schedules itself anew and returns Ok
\*   fork     schedules two leaves and returns Ok
\*   leaf     returns Ok
\*   may_fail returns Ok or Err, as the state it reads decides
Chain(n) == <<"chain", n>>
Leaf == <<"leaf", 0>>
Again == <<"again", 0>>
Fork == <<"fork", 0>>
MayFail == <<"may_fail", 0>>
Kinds == {Chain(n) : n \in 1 .. MaxChain} \cup {Again, Fork, MayFail}

\* the kinds of the actions that executing an action of kind k schedules
Children(k) ==
    IF k[1] = "chain" /\ k[2] > 1 THEN <<Chain(k[2] - 1)>>
    ELSE IF k = Again THEN <<Again>>
    ELSE IF k = Fork THEN <<Leaf, Leaf>>
    ELSE <<>>

\* the results an action of kind k can return
Outcomes(k) == IF k = MayFail THEN {"Ok", "Err"} ELSE {"Ok"}

\* the boxed actions of kinds ks, numbered from uid on, scheduled in round r
Boxed(ks, uid, r) == [i \in 1 .. Len(ks) |-> [uid |-> uid + i - 1, kind |-> ks[i], sched |-> r]]

\* Scheduler::new
SchedulerNew == <<>>

\* Scheduler::schedule pushing to the front
ScheduleFront(scheduled, action) == <<action>> \o scheduled

\* Scheduler::schedule
Schedule(scheduled, action) == Append(scheduled, action)

\* Scheduler::has_scheduled asking for more than one action
HasScheduledSeveral(scheduled) == Len(scheduled) > 1

\* Scheduler::has_scheduled
HasScheduled(scheduled) == Len(scheduled) # 0

RECURSIVE ScheduleAll(_, _)
\* the schedule calls one action makes, in order
ScheduleAll(scheduled, actions) ==
    IF actions = <<>> THEN scheduled
    ELSE ScheduleAll(Schedule(scheduled, Head(actions)), Tail(actions))

\* action.execute(scheduler) handed the executing buffer: its schedule calls
\* land behind the action itself
RunActionInline(active, executing, actions) ==
    [scheduler |-> active, buffer |-> ScheduleAll(executing, actions)]

\* self.buffer.execute(&mut self.scheduler), one action of it: the action's
\* schedule calls go to the active scheduler, the executing buffer is iterated
RunAction(active, executing, actions) ==
    [scheduler |-> ScheduleAll(active, actions), buffer |-> executing]

\* Actions::new(m), nothing scheduled or run yet
ActionsNew(m) ==
    /\ scheduler = SchedulerNew
    /\ buffer = SchedulerNew
    /\ max_runs = m
    /\ run = 0
    /\ pc = "idle"
    /\ pos = 1
    /\ result = "none"
    /\ round = 0
    /\ callRounds = 0
    /\ callStart = [scheduler |-> <<>>, buffer |-> <<>>]
    /\ nextUid = 1
    /\ log = <<>>
    /\ roundBuf = <<>>

\* actions.scheduler_mut().schedule(action), between two calls of execute
DoSchedule(k) ==
    /\ pc = "idle"
    /\ nextUid <= MaxActions
    /\ scheduler' = Schedule(scheduler, Boxed(<<k>>, nextUid, 0)[1])
    /\ nextUid' = nextUid + 1
    /\ UNCHANGED <<buffer, max_runs, run, pc, pos, result,
                   round, callRounds, callStart, log, roundBuf>>
    /\ UNCHANGED <<arenaVars, uiVars>>

\* Actions::execute is entered: let mut run = 0
ExecuteBegin ==
    /\ pc = "idle"
    /\ run' = 0
    /\ pc' = "loop"
    /\ result' = "none"
    /\ callRounds' = 0
    /\ callStart' = [scheduler |-> scheduler, buffer |-> buffer]
    /\ UNCHANGED <<scheduler, buffer, max_runs, pos, round, nextUid, log, roundBuf>>
    /\ UNCHANGED <<arenaVars, uiVars>>

\* the head of the loop at the round cap: break Err(Error::ActionLoop)
LoopActionLoop ==
    /\ pc = "loop"
    /\ run = max_runs
    /\ pc' = "idle"
    /\ result' = "ActionLoop"
    /\ UNCHANGED <<scheduler, buffer, max_runs, run, pos,
                   round, callRounds, callStart, nextUid, log, roundBuf>>
    /\ UNCHANGED <<arenaVars, uiVars>>

\* the head of the loop with nothing scheduled: break Ok(())
LoopOk ==
    /\ pc = "loop"
    /\ run # max_runs
    /\ ~HasScheduled(scheduler)
    /\ pc' = "idle"
    /\ result' = "Ok"
    /\ UNCHANGED <<scheduler, buffer, max_runs, run, pos,
                   round, callRounds, callStart, nextUid, log, roundBuf>>
    /\ UNCHANGED <<arenaVars, uiVars>>

\* std::mem::swap(&mut self.scheduler, &mut self.buffer): a round begins
LoopSwap ==
    /\ pc = "loop"
    /\ run # max_runs
    /\ HasScheduled(scheduler)
    /\ round < MaxRounds
    /\ scheduler' = buffer
    /\ buffer' = scheduler
    /\ pc' = "round"
    /\ pos' = 1
    /\ round' = round + 1
    /\ callRounds' = callRounds + 1
    /\ roundBuf' = Append(roundBuf, [first |-> callRounds = 0,
                                     uids |-> [i \in 1 .. Len(scheduler) |-> scheduler[i].uid]])
    /\ UNCHANGED <<max_runs, run, result, callStart, nextUid, log>>
    /\ UNCHANGED <<arenaVars, uiVars>>

\* Scheduler::execute, one step of try_for_each: the next action of the
\* executing buffer runs; an Err leaves execute through the ? operators
RoundAction(outcome) ==
    /\ pc = "round"
    /\ pos <= Len(buffer)
    /\ outcome \in Outcomes(buffer[pos].kind)
    /\ LET action == buffer[pos]
           made == Boxed(Children(action.kind), nextUid, round)
           r == RunAction(scheduler, buffer, made)
       IN /\ nextUid + Len(made) <= MaxActions + 1
          /\ scheduler' = r.scheduler
          /\ buffer' = r.buffer
          /\ nextUid' = nextUid + Len(made)
          /\ log' = Append(log, [uid |-> action.uid, kind |-> action.kind,
                                 sched |-> action.sched, round |-> round])
    /\ IF outcome = "Ok"
       THEN /\ pos' = pos + 1
            /\ UNCHANGED <<pc, result>>
       ELSE /\ pc' = "idle"
            /\ result' = "Err"
            /\ UNCHANGED pos
    /\ UNCHANGED <<max_runs, run, round, callRounds, callStart, roundBuf>>
    /\ UNCHANGED <<arenaVars, uiVars>>

\* Scheduler::execute after the last action: self.scheduled.clear(), Ok(()),
\* and Actions::execute loops (run is left as it is)
RoundEnd ==
    /\ pc = "round"
    /\ pos > Len(buffer)
    /\ buffer' = <<>>
    /\ pc' = "loop"
    /\ UNCHANGED <<scheduler, max_runs, run, pos, result,
                   round, callRounds, callStart, nextUid, log, roundBuf>>
    /\ UNCHANGED <<arenaVars, uiVars>>

(***************************************************************************)
(* Listeners, NotifyAction and System                                      *)
(***************************************************************************)
\* listener objects created in one behaviour
MaxListeners == 2
\* events created in one behaviour
MaxEvents == 1
\* rounds the system runs in one behaviour
MaxNotifyRounds == 1

RECURSIVE IterAll(_, _)
\* self.listeners.iter() run to its end: the listeners by ascending id
IterAll(ar, next_id) ==
    LET r == IterNextFrom(ar, next_id) IN
    IF IsNone(r.ret) THEN <<>> ELSE <<r.ret[1]>> \o IterAll(ar, r.next_id)

\* the listener objects with a strong handle: the registry's and the callers'
Living(ls, kept) == {IterAll(ls, 0)[i] : i \in 1 .. Len(IterAll(ls, 0))} \cup kept

\* NotifyAction { event: event.clone(), listener: Rc::downgrade(&l) }
NotifyAction(event, listener) == [event |-> event, listener |-> listener]

\* Listeners::try_schedule_notify, the for_each: system.scheduled afterwards
TryScheduleNotify(ls, event, scheduled) ==
    scheduled \o [i \in 1 .. Len(IterAll(ls, 0)) |-> NotifyAction(event, IterAll(ls, 0)[i])]

\* Listeners::notify: the listeners called, up to the first that returns Err;
\* oks of them return Ok
NotifyCalls(ls, event, oks) ==
    [i \in 1 .. Min({oks + 1, Len(IterAll(ls, 0))}) |->
        [listener |-> IterAll(ls, 0)[i], event |-> event, via |-> "notify"]]

\* NotifyAction::execute with a strong handle in place of the weak one
NotifyActionExecuteStrong(action, living, outcome) ==
    [invoked |-> TRUE, result |-> outcome]

\* NotifyAction::execute: the listener is called if the weak handle upgrades
NotifyActionExecute(action, living, outcome) ==
    IF action.listener \in living
    THEN [invoked |-> TRUE, result |-> outcome]
    ELSE [invoked |-> FALSE, result |-> "Ok"]

\* what the last call of notify / try_schedule_notify was and returned
NoNotify == [op |-> "none", event |-> 0, before |-> <<>>, result |-> "Ok"]

\* Listeners::new and a System with nothing scheduled
ListenersNew ==
    /\ listeners = ArenaNew
    /\ held = {}
    /\ system = <<>>
    /\ sysAlive = TRUE
    /\ lpc = "idle"
    /\ lpos = 1
    /\ lround = 0
    /\ nextListener = 1
    /\ nextEvent = 1
    /\ invoked = <<>>
    /\ executed = <<>>
    /\ lastNotify = NoNotify


\* listeners.register(listener); the caller keeps a clone of the Rc or not
DoRegister(keep) ==
    LET r == Insert(listeners, nextListener) IN
    /\ lpc = "idle"
    /\ nextListener <= MaxListeners
    /\ ~r.panic
    /\ listeners' = r.arena
    /\ held' = IF keep THEN held \cup {nextListener} ELSE held
    /\ nextListener' = nextListener + 1
    /\ lastNotify' = NoNotify
    /\ UNCHANGED <<system, sysAlive, lpc, lpos, lround, nextEvent, invoked, executed>>
    /\ UNCHANGED notListenerVars

\* listeners.unregister(id) emptying the whole registry
DoUnregisterAll(id, keep) ==
    /\ listeners' = ArenaNew
    /\ held' = held
    /\ lastNotify' = NoNotify
    /\ UNCHANGED <<system, sysAlive, lpc, lpos, lround,
                   nextListener, nextEvent, invoked, executed>>
    /\ UNCHANGED notListenerVars

\* listeners.unregister(id); the caller keeps the Rc it is handed or drops it
DoUnregister(id, keep) ==
    LET r == Remove(listeners, id) IN
    /\ listeners' = r.arena
    /\ held' = IF keep /\ IsSome(r.ret) THEN held \cup {r.ret[1]} ELSE held
    /\ lastNotify' = NoNotify
    /\ UNCHANGED <<system, sysAlive, lpc, lpos, lround,
                   nextListener, nextEvent, invoked, executed>>
    /\ UNCHANGED notListenerVars

\* a caller drops its Rc of a listener
DoDropListener(listener) ==
    /\ listener \in held
    /\ held' = held \ {listener}
    /\ lastNotify' = NoNotify
    /\ UNCHANGED <<listeners, system, sysAlive, lpc, lpos, lround,
                   nextListener, nextEvent, invoked, executed>>
    /\ UNCHANGED notListenerVars

\* the last Rc of the System is dropped
DoDropSystem ==
    /\ lpc = "idle"
    /\ sysAlive
    /\ sysAlive' = FALSE
    /\ system' = <<>>
    /\ lastNotify' = NoNotify
    /\ UNCHANGED <<listeners, held, lpc, lpos, lround,
                   nextListener, nextEvent, invoked, executed>>
    /\ UNCHANGED notListenerVars

\* listeners.notify(Rc::new(event))
DoNotify(oks) ==
    LET calls == NotifyCalls(listeners, nextEvent, oks) IN
    /\ lpc = "idle"
    /\ nextEvent <= MaxEvents
    /\ oks <= Len(IterAll(listeners, 0))
    /\ invoked' = invoked \o calls
    /\ nextEvent' = nextEvent + 1
    /\ lastNotify' = [op |-> "notify", event |-> nextEvent, before |-> system,
                      result |-> IF oks = Len(IterAll(listeners, 0)) THEN "Ok" ELSE "Err"]
    /\ UNCHANGED <<listeners, held, system, sysAlive, lpc, lpos, lround,
                   nextListener, executed>>
    /\ UNCHANGED notListenerVars

\* listeners.try_schedule_notify(Rc::new(event), &system)
DoTryScheduleNotify ==
    /\ lpc = "idle"
    /\ nextEvent <= MaxEvents
    /\ system' = IF sysAlive THEN TryScheduleNotify(listeners, nextEvent, system)
                 ELSE system
    /\ nextEvent' = nextEvent + 1
    /\ lastNotify' = [op |-> "try_schedule_notify", event |-> nextEvent,
                      before |-> system,
                      result |-> IF sysAlive THEN "Ok" ELSE "NoSystem"]
    /\ UNCHANGED <<listeners, held, sysAlive, lpc, lpos, lround,
                   nextListener, invoked, executed>>
    /\ UNCHANGED notListenerVars

\* the system starts to run what is scheduled
SystemBegin ==
    /\ lpc = "idle"
    /\ sysAlive
    /\ system # <<>>
    /\ lround < MaxNotifyRounds
    /\ lpc' = "round"
    /\ lpos' = 1
    /\ lround' = lround + 1
    /\ lastNotify' = NoNotify
    /\ UNCHANGED <<listeners, held, system, sysAlive,
                   nextListener, nextEvent, invoked, executed>>
    /\ UNCHANGED notListenerVars

\* the next scheduled action executes; an Err ends the round
SystemAction(outcome) ==
    /\ lpc = "round"
    /\ lpos <= Len(system)
    /\ LET action == system[lpos]
           r == NotifyActionExecute(action, Living(listeners, held), outcome)
       IN /\ invoked' = IF r.invoked
                        THEN Append(invoked, [listener |-> action.listener,
                                              event |-> action.event, via |-> "action"])
                        ELSE invoked
          /\ executed' = Append(executed, [listener |-> action.listener,
                                           event |-> action.event,
                                           invoked |-> r.invoked,
                                           result |-> r.result, round |-> lround])
          /\ IF r.result = "Ok"
             THEN /\ lpos' = lpos + 1
                  /\ UNCHANGED lpc
             ELSE /\ lpc' = "idle"
                  /\ UNCHANGED lpos
    /\ UNCHANGED <<listeners, held, system, sysAlive, lround,
                   nextListener, nextEvent, lastNotify>>
    /\ UNCHANGED notListenerVars

\* every scheduled action has returned Ok: the queue is cleared
SystemEnd ==
    /\ lpc = "round"
    /\ lpos > Len(system)
    /\ system' = <<>>
    /\ lpc' = "idle"
    /\ UNCHANGED <<listeners, held, sysAlive, lpos, lround,
                   nextListener, nextEvent, invoked, executed, lastNotify>>
    /\ UNCHANGED notListenerVars

(***************************************************************************)
(* Mouse targets and Button                                                *)
(***************************************************************************)
\* coordinates are 0 .. MaxCoord
MaxCoord == 1
\* mouse events notified to the widget in one behaviour
MaxInputs == 4
\* handler actions scheduled and not yet executed
MaxPending == 2

\* the widget id of the button
ButtonId == 0

Position(x, y) == [x |-> x, y |-> y]
Positions == {Position(x, y) : x \in 0 .. MaxCoord, y \in 0 .. MaxCoord}

\* Bounds::new that orders the x axis only
BoundsNewOrderX(x1, x2, y1, y2) ==
    [left |-> IF x1 > x2 THEN x2 ELSE x1, right |-> IF x1 > x2 THEN x1 ELSE x2,
     bottom |-> y1, top |-> y2]

\* Bounds::new
BoundsNew(x1, x2, y1, y2) ==
    [left |-> IF x1 > x2 THEN x2 ELSE x1, right |-> IF x1 > x2 THEN x1 ELSE x2,
     bottom |-> IF y1 > y2 THEN y2 ELSE y1, top |-> IF y1 > y2 THEN y1 ELSE y2]

\* the bounds of the button's Spatial
ButtonBounds == BoundsNew(MaxCoord, 1, 0, MaxCoord)

\* bounds.contains_position(&position)
ContainsPosition(bounds, position) ==
    /\ bounds.left <= position.x /\ position.x <= bounds.right
    /\ bounds.bottom <= position.y /\ position.y <= bounds.top

\* the handlers Button::decorate and MouseOverTarget::decorate register
MotionHandlers == <<"CheckMouseOverHandler">>
OverHandlers == <<"HighlightHandler">>
ButtonHandlers == <<"ClickHandler">>

\* handlers.notify(event, scheduler): one action per handler is scheduled
HandlersNotify(scheduled, handlers, event) ==
    scheduled \o [i \in 1 .. Len(handlers) |-> [handler |-> handlers[i], event |-> event]]

\* CheckMouseOverHandler::handle_event notifying on every sample within bounds
CheckMouseOverLevel(old_within, now_within) ==
    [within |-> now_within,
     notify |-> IF now_within THEN <<"Entered">> ELSE <<"Exited">>]

\* CheckMouseOverHandler::handle_event: the new within and the kinds notified
CheckMouseOverHandler(old_within, now_within) ==
    [within |-> now_within,
     notify |-> IF old_within /\ ~now_within THEN <<"Exited">>
                ELSE IF ~old_within /\ now_within THEN <<"Entered">>
                ELSE <<>>]

\* HighlightHandler::handle_event that highlights on either kind
HighlightHandlerSticky(kind) == kind \in {"Entered", "Exited"}

\* HighlightHandler::handle_event: the new highlighted
HighlightHandler(kind) == kind = "Entered"

\* ClickHandler::handle_event with a press that arms wherever it is
ClickHandlerArmAnywhere(was_pressed, kind, contained, widget_id) ==
    IF kind = "Pressed"
    THEN [pressed |-> TRUE, notify |-> <<>>]
    ELSE IF was_pressed
         THEN [pressed |-> FALSE, notify |-> <<[source_id |-> widget_id]>>]
         ELSE [pressed |-> was_pressed, notify |-> <<>>]

\* ClickHandler::handle_event with a press that arms nothing
ClickHandlerNoArm(was_pressed, kind, contained, widget_id) ==
    IF kind = "Pressed"
    THEN [pressed |-> was_pressed, notify |-> <<>>]
    ELSE IF was_pressed
         THEN [pressed |-> FALSE, notify |-> <<[source_id |-> widget_id]>>]
         ELSE [pressed |-> was_pressed, notify |-> <<>>]

\* ClickHandler::handle_event: the new pressed and the ButtonEvents notified;
\* contained is the hit test of the event's position, read by Pressed only
ClickHandler(was_pressed, kind, contained, widget_id) ==
    IF kind = "Pressed"
    THEN [pressed |-> IF contained THEN TRUE ELSE was_pressed, notify |-> <<>>]
    ELSE IF was_pressed
         THEN [pressed |-> FALSE, notify |-> <<[source_id |-> widget_id]>>]
         ELSE [pressed |-> was_pressed, notify |-> <<>>]

\* the handler action executed last: its event, the hit test of the event's
\* position, and whether a press within the bounds was pending
NoHandled == [handler |-> "none", kind |-> "none", contained |-> FALSE, armed |-> FALSE]

\* Button::new and MouseOverTarget::new, nothing notified yet
ButtonNew ==
    /\ pressed = TRUE
    /\ highlighted = FALSE
    /\ within = FALSE
    /\ handlerQueue = <<>>
    /\ inputs = 0
    /\ clicks = <<>>
    /\ overs = <<>>
    /\ armed = FALSE
    /\ lastHandled = NoHandled


\* mouse_motion_target.notify(event, scheduler)
DoMouseMotion(position) ==
    /\ inputs < MaxInputs
    /\ Len(handlerQueue) < MaxPending
    /\ inputs' = inputs + 1
    /\ handlerQueue' = HandlersNotify(handlerQueue, MotionHandlers,
                                      [kind |-> "Motion", position |-> position])
    /\ UNCHANGED <<pressed, highlighted, within, clicks, overs, armed, lastHandled>>
    /\ UNCHANGED notButtonVars

\* mouse_button_target.notify(event, scheduler)
DoMouseButton(kind, position) ==
    /\ inputs < MaxInputs
    /\ Len(handlerQueue) < MaxPending
    /\ inputs' = inputs + 1
    /\ handlerQueue' = HandlersNotify(handlerQueue, ButtonHandlers,
                                      [kind |-> kind, position |-> position])
    /\ UNCHANGED <<pressed, highlighted, within, clicks, overs, armed, lastHandled>>
    /\ UNCHANGED notButtonVars

\* the scheduled action of CheckMouseOverHandler executes
HandleMotion ==
    /\ handlerQueue # <<>>
    /\ Head(handlerQueue).handler = "CheckMouseOverHandler"
    /\ LET event == Head(handlerQueue).event
           contained == ContainsPosition(ButtonBounds, event.position)
           r == CheckMouseOverHandler(within, contained)
       IN /\ within' = r.within
          /\ overs' = overs \o r.notify
          /\ handlerQueue' =
                 IF r.notify = <<>> THEN Tail(handlerQueue)
                 ELSE HandlersNotify(Tail(handlerQueue), OverHandlers,
                                     [kind |-> r.notify[1], position |-> event.position])
          /\ lastHandled' = [handler |-> "CheckMouseOverHandler", kind |-> "Motion",
                             contained |-> contained, armed |-> armed]
    /\ UNCHANGED <<pressed, highlighted, inputs, clicks, armed>>
    /\ UNCHANGED notButtonVars

\* the scheduled action of HighlightHandler executes
HandleOver ==
    /\ handlerQueue # <<>>
    /\ Head(handlerQueue).handler = "HighlightHandler"
    /\ highlighted' = HighlightHandler(Head(handlerQueue).event.kind)
    /\ handlerQueue' = Tail(handlerQueue)
    /\ lastHandled' = [handler |-> "HighlightHandler",
                       kind |-> Head(handlerQueue).event.kind, contained |-> FALSE,
                       armed |-> armed]
    /\ UNCHANGED <<pressed, within, inputs, clicks, overs, armed>>
    /\ UNCHANGED notButtonVars

\* the scheduled action of ClickHandler executes
HandleButton ==
    /\ handlerQueue # <<>>
    /\ Head(handlerQueue).handler = "ClickHandler"
    /\ LET event == Head(handlerQueue).event
           contained == ContainsPosition(ButtonBounds, event.position)
           r == ClickHandler(pressed, event.kind, contained, ButtonId)
       IN /\ pressed' = r.pressed
          /\ clicks' = clicks \o r.notify
          /\ armed' = IF event.kind = "Pressed" THEN (armed \/ contained) ELSE FALSE
          /\ lastHandled' = [handler |-> "ClickHandler", kind |-> event.kind,
                             contained |-> contained, armed |-> armed]
    /\ handlerQueue' = Tail(handlerQueue)
    /\ UNCHANGED <<highlighted, within, inputs, overs>>
    /\ UNCHANGED notButtonVars

(***************************************************************************)
(* Container and Shape                                                     *)
(***************************************************************************)
\* child shapes one container gets
MaxChildren == 3
\* moves of the container and resizes of its children in one behaviour
MaxChanges == 1

\* the preferred width the container's shape is created with
ContainerWidth == 20
\* where the container is moved to
Origins == {Position(0, 0), Position(2, 4)}
Alignments == {"Left", "Center", "Right"}

\* Dimension::new
Dimension(width, height) ==
    [width |-> IF width < 0 THEN -width ELSE width,
     height |-> IF height < 0 THEN -height ELSE height]

\* the preferred sizes of the child shapes; (w - c) / 2.0 is exact on them
Sizes == {Dimension(2, 4), Dimension(4, 2)}

\* Dimension::combine_horizontal: side by side
CombineHorizontal(a, b) ==
    [width |-> a.width + b.width, height |-> Max({a.height, b.height})]

\* Dimension::combine_vertical: one above the other
CombineVertical(a, b) ==
    [width |-> Max({a.width, b.width}), height |-> a.height + b.height]

\* the preferred sizes of the children, by child
SizesOf(ss) == [c \in 1 .. Len(ss) |-> ss[c].preferred_size]

RECURSIVE RowHeight(_, _)
\* the first loop over a row: row_height
RowHeight(row, sizes) ==
    IF row = <<>> THEN 0
    ELSE LET rest == RowHeight(Front(row), sizes)
             col_height == sizes[row[Len(row)].child].height
         IN IF col_height > rest THEN col_height ELSE rest

RECURSIVE AlignedWidth(_, _, _)
\* the first loop over a row: center_width, right_width
AlignedWidth(row, sizes, alignment) ==
    IF row = <<>> THEN 0
    ELSE AlignedWidth(Front(row), sizes, alignment)
         + (IF row[Len(row)].alignment = alignment
            THEN sizes[row[Len(row)].child].width ELSE 0)

\* let mut left_x = position.x
LeftX(position) == position.x

\* let mut center_x = position.x + (size.width() - center_width) / 2.0
CenterX(position, width, center_width) == position.x + (width - center_width) \div 2

\* let mut right_x = position.x + size.width() - right_width
RightX(position, width, right_width) == position.x + width - right_width

RECURSIVE PlaceColumns(_, _, _, _)
\* the second loop over a row: st holds left_x, center_x, right_x, y and the
\* set_position calls made so far
PlaceColumns(row, row_height, sizes, st) ==
    IF row = <<>> THEN st
    ELSE LET col == Head(row)
             col_size == sizes[col.child]
             x == IF col.alignment = "Left" THEN st.left_x
                  ELSE IF col.alignment = "Center" THEN st.center_x
                  ELSE st.right_x
             col_position == Position(x, st.y + row_height - col_size.height)
         IN PlaceColumns(Tail(row), row_height, sizes,
                [left_x |-> IF col.alignment = "Left"
                            THEN st.left_x + col_size.width ELSE st.left_x,
                 center_x |-> IF col.alignment = "Center"
                              THEN st.center_x + col_size.width ELSE st.center_x,
                 right_x |-> IF col.alignment = "Right"
                             THEN st.right_x + col_size.width ELSE st.right_x,
                 y |-> st.y + row_height,
                 placed |-> Append(st.placed, [child |-> col.child,
                                                position |-> col_position])])

RECURSIVE LayoutRows(_, _, _, _, _, _)
\* the loop over the rows: the set_position calls it makes, in order
LayoutRows(rs, position, width, sizes, y, placed) ==
    IF rs = <<>> THEN placed
    ELSE LET row == Head(rs)
             st == PlaceColumns(row, RowHeight(row, sizes), sizes,
                       [left_x |-> LeftX(position),
                        center_x |-> CenterX(position, width,
                                             AlignedWidth(row, sizes, "Center")),
                        right_x |-> RightX(position, width,
                                           AlignedWidth(row, sizes, "Right")),
                        y |-> y, placed |-> placed])
         IN LayoutRows(Tail(rs), position, width, sizes, st.y, st.placed)

RECURSIVE RowSize(_, _)
\* row.iter().map(Column::size).fold(Dimension::default(), combine_horizontal)
RowSize(row, sizes) ==
    IF row = <<>> THEN Dimension(0, 0)
    ELSE CombineHorizontal(RowSize(Front(row), sizes), sizes[row[Len(row)].child])

RECURSIVE NewSize(_, _)
\* update_after_resize: new_size, the row sizes folded with combine_vertical
NewSize(rs, sizes) ==
    IF rs = <<>> THEN Dimension(0, 0)
    ELSE CombineVertical(NewSize(Front(rs), sizes), RowSize(rs[Len(rs)], sizes))

\* the listeners registered on the on_move registry of a child shape: the
\* first child has one, the others none
ChildMoveListeners(child) == IF child = 1 THEN <<"ChildMoved">> ELSE <<>>

RECURSIVE SetPositions(_, _)
\* col.child.set_position(col_position) for each call of placed, in order:
\* Shape::set_position writes the position and schedules the notification of
\* the on_move listeners of the child
SetPositions(st, placed) ==
    IF placed = <<>> THEN st
    ELSE SetPositions(
             [shapes |-> [st.shapes EXCEPT ![Head(placed).child].position =
                                               Head(placed).position],
              scheduled |-> st.scheduled \o
                   [i \in 1 .. Len(ChildMoveListeners(Head(placed).child)) |->
                       [listener |-> ChildMoveListeners(Head(placed).child)[i],
                        source |-> Head(placed).child]]],
             Tail(placed))

\* Container::add_row pushing a row whatever the last row holds
AddRowAlways(rs) == Append(rs, <<>>)

\* Container::add_row: the rows afterwards
AddRow(rs) ==
    IF Len(rs) = 0 \/ Len(rs[Len(rs)]) # 0 THEN Append(rs, <<>>) ELSE rs

\* Container::add_column: the rows afterwards
AddColumn(rs, column) ==
    IF Len(rs) = 0 THEN <<(<<column>>)>>
    ELSE [rs EXCEPT ![Len(rs)] = Append(@, column)]

NoLayout == [op |-> "none", before |-> <<>>, placed |-> <<>>, width |-> 0,
             scheduled |-> <<>>]

\* Shape::new for the container's shape and Container::new
ContainerNew ==
    /\ shape = [position |-> Position(0, 0),
                preferred_size |-> Dimension(ContainerWidth, 0)]
    /\ rows = <<>>
    /\ shapes = <<>>
    /\ notifyQueue = <<>>
    /\ changes = 0
    /\ lastLayout = NoLayout

\* container.add_row()
DoAddRow ==
    /\ notifyQueue = <<>>
    /\ changes = 0
    /\ rows' = AddRow(rows)
    /\ lastLayout' = [op |-> "add_row", before |-> rows, ret |-> AddRow(rows) # rows]
    /\ UNCHANGED <<shape, shapes, notifyQueue, changes>>
    /\ UNCHANGED notLayoutVars

\* container.add_column(child, alignment) with the reference of a new Shape
DoAddColumn(size, alignment) ==
    /\ notifyQueue = <<>>
    /\ changes = 0
    /\ Len(shapes) < MaxChildren
    /\ shapes' = Append(shapes, [position |-> Position(0, 0), preferred_size |-> size])
    /\ rows' = AddColumn(rows, [child |-> Len(shapes) + 1, alignment |-> alignment])
    /\ lastLayout' = NoLayout
    /\ UNCHANGED <<shape, notifyQueue, changes>>
    /\ UNCHANGED notLayoutVars

\* shape.set_position(position) on the container's shape: the notification of
\* its ContainerMoved listener is scheduled
DoMoveContainer(position) ==
    /\ notifyQueue = <<>>
    /\ changes < MaxChanges
    /\ changes' = changes + 1
    /\ shape' = [shape EXCEPT !.position = position]
    /\ notifyQueue' = Append(notifyQueue, [listener |-> "ContainerMoved", source |-> 0])
    /\ lastLayout' = NoLayout
    /\ UNCHANGED <<rows, shapes>>
    /\ UNCHANGED notLayoutVars

\* child.set_preferred_size(size): the notification of the ChildResized
\* listener that add_column registered is scheduled
DoResizeChild(child, size) ==
    /\ notifyQueue = <<>>
    /\ changes < MaxChanges
    /\ child \in 1 .. Len(shapes)
    /\ changes' = changes + 1
    /\ shapes' = [shapes EXCEPT ![child].preferred_size = size]
    /\ notifyQueue' = Append(notifyQueue, [listener |-> "ChildResized", source |-> child])
    /\ lastLayout' = NoLayout
    /\ UNCHANGED <<shape, rows>>
    /\ UNCHANGED notLayoutVars

\* the NotifyAction of ContainerMoved executes: update_after_move
UpdateAfterMove ==
    /\ notifyQueue # <<>>
    /\ Head(notifyQueue).listener = "ContainerMoved"
    /\ LET placed == LayoutRows(rows, shape.position, shape.preferred_size.width,
                                SizesOf(shapes), shape.position.y, <<>>)
           r == SetPositions([shapes |-> shapes, scheduled |-> <<>>], placed)
       IN /\ shapes' = r.shapes
          /\ notifyQueue' = Tail(notifyQueue) \o r.scheduled
          /\ lastLayout' = [op |-> "update_after_move", before |-> shapes,
                            placed |-> placed, width |-> shape.preferred_size.width,
                            scheduled |-> r.scheduled]
    /\ UNCHANGED <<shape, rows, changes>>
    /\ UNCHANGED notLayoutVars

\* the NotifyAction of ChildResized executes: update_after_resize
UpdateAfterResize ==
    /\ notifyQueue # <<>>
    /\ Head(notifyQueue).listener = "ChildResized"
    /\ LET new_size == NewSize(rows, SizesOf(shapes))
           placed == LayoutRows(rows, shape.position, new_size.width,
                                SizesOf(shapes), shape.position.y, <<>>)
           r == SetPositions([shapes |-> shapes, scheduled |-> <<>>], placed)
       IN /\ shapes' = r.shapes
          /\ shape' = [shape EXCEPT !.preferred_size = new_size]
          /\ notifyQueue' = Tail(notifyQueue) \o r.scheduled
          /\ lastLayout' = [op |-> "update_after_resize", before |-> shapes,
                            placed |-> placed, width |-> new_size.width,
                            scheduled |-> r.scheduled]
    /\ UNCHANGED <<rows, changes>>
    /\ UNCHANGED notLayoutVars

\* the NotifyAction of a listener on a child's on_move executes
ChildMoved ==
    /\ notifyQueue # <<>>
    /\ Head(notifyQueue).listener = "ChildMoved"
    /\ notifyQueue' = Tail(notifyQueue)
    /\ UNCHANGED <<shape, rows, shapes, changes, lastLayout>>
    /\ UNCHANGED notLayoutVars

(***************************************************************************)
(* Manager, WidgetBuilder and Context                                      *)
(***************************************************************************)
\* widgets created in one behaviour
MaxWidgets == 2
\* components handed to a WidgetBuilder directly in one behaviour
MaxSets == 2

\* the capabilities define_component! is instantiated for
Capabilities == {"button", "container", "dialog", "mouse_button_target",
                 "mouse_motion_target", "spatial"}

\* the capabilities that have a decorate function
Decorators == {"spatial", "mouse_button_target", "mouse_motion_target",
               "mouse_over_target", "button"}

\* widget ids passed to a WidgetBuilder or a Context: existing and not
WidgetIds == 0 .. MaxWidgets

\* a Widget without components
WidgetNew == [kind \in Capabilities |-> None]

\* a component as its new() makes it: no handler registered
ComponentNew == [handlers |-> <<>>]

\* a Manager without widgets
ManagerNew == [widgets |-> ArenaNew, components |-> [kind \in Capabilities |-> ArenaNew]]

\* the hover targets: MouseOverTarget::decorate and Button::decorate call
\* has_mouse_over_target, set_mouse_over_target and mouse_over_target_mut,
\* which no define_component! line makes and for which neither Manager nor
\* Widget has a field; the targets and the id each widget holds of one are
\* kept here, beside the Manager
HoverNew == [targets |-> ArenaNew, ids |-> [widget_id \in WidgetIds |-> None]]

\* WidgetBuilder::$has
HasComponent(m, kind, widget_id) ==
    LET widget == Get(m.widgets, widget_id).ret IN
    IF IsNone(widget)
    THEN [ret |-> FALSE, result |-> "NoWidget"]
    ELSE [ret |-> IsSome(widget[1][kind]), result |-> "Ok"]

\* WidgetBuilder::$set storing the id of the first component of the arena
SetComponentFirst(m, kind, widget_id, component) ==
    LET r == Insert(m.components[kind], component)
        inserted == [m EXCEPT !.components[kind] = r.arena]
        widget == Get(m.widgets, widget_id).ret
    IN IF IsNone(widget)
       THEN [manager |-> inserted, result |-> "NoWidget"]
       ELSE [manager |-> [inserted EXCEPT !.widgets.buffer[widget_id + 1] =
                              Some([widget[1] EXCEPT ![kind] = Some(0)])],
             result |-> "Ok"]

\* WidgetBuilder::$set: the component is inserted, then the widget is looked up
SetComponent(m, kind, widget_id, component) ==
    LET r == Insert(m.components[kind], component)
        inserted == [m EXCEPT !.components[kind] = r.arena]
        widget == Get(m.widgets, widget_id).ret
    IN IF IsNone(widget)
       THEN [manager |-> inserted, result |-> "NoWidget"]
       ELSE [manager |-> [inserted EXCEPT !.widgets.buffer[widget_id + 1] =
                              Some([widget[1] EXCEPT ![kind] = Some(r.ret)])],
             result |-> "Ok"]

\* Context::$get without the lookup of the widget's component id
ComponentAt(m, kind, widget_id) ==
    LET component == Get(m.components[kind], widget_id).ret IN
    IF IsNone(component)
    THEN [ret |-> None, result |-> "NoComponent"]
    ELSE [ret |-> component, result |-> "Ok"]

\* Context::$get and Context::$mut: widget id -> component id -> component
Component(m, kind, widget_id) ==
    LET widget == Get(m.widgets, widget_id).ret IN
    IF IsNone(widget)
    THEN [ret |-> None, result |-> "NoWidget"]
    ELSE IF IsNone(widget[1][kind])
         THEN [ret |-> None, result |-> "NoComponent"]
         ELSE LET component == Get(m.components[kind], widget[1][kind][1]).ret IN
              IF IsNone(component)
              THEN [ret |-> None, result |-> "NoComponent"]
              ELSE [ret |-> component, result |-> "Ok"]

\* builder.has_mouse_over_target(), taken to be what $has is
HasHover(m, h, widget_id) ==
    IF IsNone(Get(m.widgets, widget_id).ret)
    THEN [ret |-> FALSE, result |-> "NoWidget"]
    ELSE [ret |-> IsSome(h.ids[widget_id]), result |-> "Ok"]

\* builder.set_mouse_over_target(component), taken to be what $set is: the
\* target is inserted, then the widget is looked up
SetHover(m, h, widget_id, component) ==
    LET r == Insert(h.targets, component)
        inserted == [h EXCEPT !.targets = r.arena]
    IN IF IsNone(Get(m.widgets, widget_id).ret)
       THEN [hover |-> inserted, result |-> "NoWidget"]
       ELSE [hover |-> [inserted EXCEPT !.ids[widget_id] = Some(r.ret)],
             result |-> "Ok"]

\* builder.mouse_over_target_mut(), taken to be what $mut is
HoverComponent(m, h, widget_id) ==
    IF IsNone(Get(m.widgets, widget_id).ret)
    THEN [ret |-> None, result |-> "NoWidget"]
    ELSE IF IsNone(h.ids[widget_id])
         THEN [ret |-> None, result |-> "NoComponent"]
         ELSE LET component == Get(h.targets, h.ids[widget_id][1]).ret IN
              IF IsNone(component)
              THEN [ret |-> None, result |-> "NoComponent"]
              ELSE [ret |-> component, result |-> "Ok"]

\* builder.mouse_over_target_mut()?.add_handler(handler)
AddHoverHandler(m, h, widget_id, handler) ==
    LET component == HoverComponent(m, h, widget_id) IN
    IF component.result # "Ok"
    THEN [hover |-> h, result |-> component.result]
    ELSE [hover |-> [h EXCEPT !.targets.buffer[h.ids[widget_id][1] + 1] =
                         Some([handlers |-> Append(component.ret[1].handlers, handler)])],
          result |-> "Ok"]

\* builder.$mut()?.add_handler(handler)
AddHandler(m, kind, widget_id, handler) ==
    LET component == Component(m, kind, widget_id) IN
    IF component.result # "Ok"
    THEN [manager |-> m, result |-> component.result]
    ELSE LET id == Get(m.widgets, widget_id).ret[1][kind][1] IN
         [manager |-> [m EXCEPT !.components[kind].buffer[id + 1] =
                           Some([handlers |-> Append(component.ret[1].handlers, handler)])],
          result |-> "Ok"]

\* Spatial::decorate
DecorateSpatial(m, widget_id) ==
    LET has == HasComponent(m, "spatial", widget_id) IN
    IF has.result # "Ok" THEN [manager |-> m, result |-> has.result]
    ELSE IF has.ret THEN [manager |-> m, result |-> "Ok"]
    ELSE [manager |-> SetComponent(m, "spatial", widget_id, ComponentNew).manager,
          result |-> "Ok"]

\* MouseEventTarget<E>::decorate after Spatial::decorate(builder)? gave s
TargetAfterSpatial(s, widget_id) ==
    IF s.result # "Ok" THEN s
    ELSE [manager |-> SetComponent(s.manager, "mouse_button_target", widget_id,
                                   ComponentNew).manager,
          result |-> "Ok"]

\* MouseEventTarget<E>::decorate after builder.has_mouse_button_target() gave has
TargetAfterHas(has, m, widget_id) ==
    IF has.result # "Ok" THEN [manager |-> m, result |-> has.result]
    ELSE IF has.ret THEN [manager |-> m, result |-> "Ok"]
    ELSE TargetAfterSpatial(DecorateSpatial(m, widget_id), widget_id)

\* MouseEventTarget<E>::decorate, for MouseButtonTarget and MouseMotionTarget
\* alike: it tests and sets the mouse button target
DecorateMouseEventTarget(m, widget_id) ==
    TargetAfterHas(HasComponent(m, "mouse_button_target", widget_id), m, widget_id)

\* a decorate that leaves the hover targets alone
WithHover(r, h) == [manager |-> r.manager, hover |-> h, result |-> r.result]

\* MouseOverTarget::decorate after builder.set_mouse_over_target(..) gave o on
\* the manager m
OverAfterSet(o, m, widget_id) ==
    IF o.result # "Ok" THEN [manager |-> m, hover |-> o.hover, result |-> o.result]
    ELSE WithHover(AddHandler(m, "mouse_motion_target", widget_id,
                              "CheckMouseOverHandler"),
                   o.hover)

\* MouseOverTarget::decorate after MouseMotionTarget::decorate(builder)? gave t
OverAfterTarget(t, h, widget_id) ==
    IF t.result # "Ok" THEN WithHover(t, h)
    ELSE OverAfterSet(SetHover(t.manager, h, widget_id, ComponentNew), t.manager,
                      widget_id)

\* MouseOverTarget::decorate after Spatial::decorate(builder)? gave s
OverAfterSpatial(s, h, widget_id) ==
    IF s.result # "Ok" THEN WithHover(s, h)
    ELSE OverAfterTarget(DecorateMouseEventTarget(s.manager, widget_id), h, widget_id)

\* MouseOverTarget::decorate after builder.has_mouse_over_target() gave has
OverAfterHas(has, m, h, widget_id) ==
    IF has.result # "Ok" THEN [manager |-> m, hover |-> h, result |-> has.result]
    ELSE IF has.ret THEN [manager |-> m, hover |-> h, result |-> "Ok"]
    ELSE OverAfterSpatial(DecorateSpatial(m, widget_id), h, widget_id)

\* MouseOverTarget::decorate
DecorateMouseOverTarget(m, h, widget_id) ==
    OverAfterHas(HasHover(m, h, widget_id), m, h, widget_id)

\* Button::decorate after the HighlightHandler was added, which gave a on the
\* manager m
ButtonAfterHighlight(a, m, widget_id) ==
    IF a.result # "Ok" THEN [manager |-> m, hover |-> a.hover, result |-> a.result]
    ELSE WithHover(AddHandler(m, "mouse_button_target", widget_id, "ClickHandler"),
                   a.hover)

\* Button::decorate after builder.set_button(..) gave the manager m
ButtonAfterSet(m, h, widget_id) ==
    ButtonAfterHighlight(AddHoverHandler(m, h, widget_id, "HighlightHandler"), m,
                         widget_id)

\* Button::decorate after MouseOverTarget::decorate(builder)? gave o
ButtonAfterOver(o, widget_id) ==
    IF o.result # "Ok" THEN o
    ELSE ButtonAfterSet(SetComponent(o.manager, "button", widget_id,
                                     ComponentNew).manager,
                        o.hover, widget_id)

\* Button::decorate after MouseButtonTarget::decorate(builder)? gave t
ButtonAfterTarget(t, h, widget_id) ==
    IF t.result # "Ok" THEN WithHover(t, h)
    ELSE ButtonAfterOver(DecorateMouseOverTarget(t.manager, h, widget_id), widget_id)

\* Button::decorate after Spatial::decorate(builder)? gave s
ButtonAfterSpatial(s, h, widget_id) ==
    IF s.result # "Ok" THEN WithHover(s, h)
    ELSE ButtonAfterTarget(DecorateMouseEventTarget(s.manager, widget_id), h,
                           widget_id)

\* Button::decorate after builder.has_button() gave has
ButtonAfterHas(has, m, h, widget_id) ==
    IF has.result # "Ok" THEN [manager |-> m, hover |-> h, result |-> has.result]
    ELSE IF has.ret THEN [manager |-> m, hover |-> h, result |-> "Ok"]
    ELSE ButtonAfterSpatial(DecorateSpatial(m, widget_id), h, widget_id)

\* Button::decorate
DecorateButton(m, h, widget_id) ==
    ButtonAfterHas(HasComponent(m, "button", widget_id), m, h, widget_id)

\* X::decorate(builder) for the capability X
Decorate(kind, m, h, widget_id) ==
    CASE kind = "spatial" -> WithHover(DecorateSpatial(m, widget_id), h)
      [] kind = "mouse_button_target" ->
             WithHover(DecorateMouseEventTarget(m, widget_id), h)
      [] kind = "mouse_motion_target" ->
             WithHover(DecorateMouseEventTarget(m, widget_id), h)
      [] kind = "mouse_over_target" -> DecorateMouseOverTarget(m, h, widget_id)
      [] kind = "button" -> DecorateButton(m, h, widget_id)

\* no call made through a Context yet
NoCall == [op |-> "none", kind |-> "spatial", widget_id |-> 0,
           ret |-> None, result |-> "Ok"]

ManagerInit ==
    /\ manager = ManagerNew
    /\ hover = HoverNew
    /\ sets = 0
    /\ lastManager = NoCall

\* a widget is created
DoCreateWidget ==
    /\ Len(manager.widgets.buffer) < MaxWidgets
    /\ manager' = [manager EXCEPT !.widgets = Insert(manager.widgets, WidgetNew).arena]
    /\ lastManager' = NoCall
    /\ UNCHANGED <<hover, sets>>
    /\ UNCHANGED notManagerVars

\* X::decorate(&mut builder) with the builder of widget_id
DoDecorate(kind, widget_id) ==
    /\ manager' = Decorate(kind, manager, hover, widget_id).manager
    /\ hover' = Decorate(kind, manager, hover, widget_id).hover
    /\ lastManager' = NoCall
    /\ UNCHANGED sets
    /\ UNCHANGED notManagerVars

\* builder.$set(component) with the builder of widget_id
DoSet(kind, widget_id) ==
    /\ sets < MaxSets
    /\ sets' = sets + 1
    /\ manager' = SetComponent(manager, kind, widget_id, ComponentNew).manager
    /\ lastManager' = NoCall
    /\ UNCHANGED hover
    /\ UNCHANGED notManagerVars

\* context.$get(widget_id)
DoGetComponent(kind, widget_id) ==
    /\ lastManager' = [op |-> "get", kind |-> kind, widget_id |-> widget_id,
                       ret |-> Component(manager, kind, widget_id).ret,
                       result |-> Component(manager, kind, widget_id).result]
    /\ UNCHANGED <<manager, hover, sets>>
    /\ UNCHANGED notManagerVars

(***************************************************************************)
(* Spatial                                                                 *)
(***************************************************************************)
\* move listeners added in one behaviour
MaxMoveListeners == 2
\* actions scheduled on the Context and not yet executed
MaxScheduled == 2

\* the positions a Spatial is moved to
SpatialPositions == {Position(0, 0), Position(1, 0), Position(0, 1)}

\* the widget the Spatial belongs to, which is the widget the Context acts on
SpatialId == 0

\* the id the next insert into ar returns
SmallestFree(ar) == Insert(ar, 0).ret

\* Listeners::add: Listener { target_id: widget_id, action }
Listener(widget_id, action) == [target_id |-> widget_id, action |-> action]

\* Context::schedule: ScheduledAction { source_id, target_id, action }
ScheduledAction(source_id, target_id, action) ==
    [source_id |-> source_id, target_id |-> target_id, action |-> action]

\* SetPosition { position }
SetPosition(position) == [name |-> "SetPosition", position |-> position]

\* Listeners::notify (widget.rs): context.actions afterwards
ListenersNotify(ls, source_id, scheduled) ==
    scheduled \o [i \in 1 .. Len(IterAll(ls, 0)) |->
                     ScheduledAction(source_id, IterAll(ls, 0)[i].target_id,
                                     IterAll(ls, 0)[i].action)]

\* Spatial::set_position, the Spatial afterwards
SetSpatialPosition(sp, position) == [sp EXCEPT !.position = position]

\* the rectangle of a position and a size
BoundsOf(position, size) ==
    BoundsNew(position.x, position.x + size.width,
              position.y, position.y + size.height)

\* Spatial::bounds: the bounds are calculated anew when they are marked
SpatialBounds(sp) ==
    IF sp.update_bounds
    THEN [sp EXCEPT !.bounds = BoundsOf(sp.position, sp.preferred_size),
                    !.update_bounds = FALSE]
    ELSE sp

\* no call made on the Spatial yet
NoSpatialCall == [op |-> "none", ret |-> BoundsNew(0, 0, 0, 0)]

\* Spatial::new and a Context with nothing scheduled
SpatialNew ==
    /\ spatial = [position |-> Position(0, 0),
                  preferred_size |-> Dimension(0, 0),
                  bounds |-> BoundsNew(0, 0, 0, 0),
                  update_bounds |-> TRUE,
                  move_listeners |-> ArenaNew]
    /\ context = <<>>
    /\ lastSpatial = NoSpatialCall

\* spatial.add_move_listener(widget_id, action): the listening widgets are
\* 1, 2, ... and each has an action of its own
DoAddMoveListener ==
    LET n == SmallestFree(spatial.move_listeners) + 1 IN
    /\ Len(IterAll(spatial.move_listeners, 0)) < MaxMoveListeners
    /\ spatial' = [spatial EXCEPT !.move_listeners =
                       Insert(spatial.move_listeners,
                              Listener(n, [name |-> "Moved", listener |-> n])).arena]
    /\ lastSpatial' = NoSpatialCall
    /\ UNCHANGED context
    /\ UNCHANGED notSpatialVars

\* spatial.remove_move_listener(id)
DoRemoveMoveListener(id) ==
    /\ spatial' = [spatial EXCEPT !.move_listeners =
                       Remove(spatial.move_listeners, id).arena]
    /\ lastSpatial' = NoSpatialCall
    /\ UNCHANGED context
    /\ UNCHANGED notSpatialVars

\* spatial.set_position(position, context)
DoSetPosition(position) ==
    /\ Len(context) + Len(IterAll(spatial.move_listeners, 0)) <= MaxScheduled
    /\ spatial' = SetSpatialPosition(spatial, position)
    /\ context' = ListenersNotify(spatial.move_listeners, SpatialId, context)
    /\ lastSpatial' = NoSpatialCall
    /\ UNCHANGED notSpatialVars

\* spatial.schedule_set_position(position, context)
DoScheduleSetPosition(position) ==
    /\ Len(context) < MaxScheduled
    /\ context' = Append(context, ScheduledAction(SpatialId, SpatialId,
                                                  SetPosition(position)))
    /\ lastSpatial' = NoSpatialCall
    /\ UNCHANGED spatial
    /\ UNCHANGED notSpatialVars

\* the first scheduled action is executed: SetPosition::execute writes the
\* position, the action of a listener leaves the Spatial alone
DoExecuteScheduled ==
    /\ context # <<>>
    /\ spatial' = IF Head(context).action.name = "SetPosition"
                  THEN [spatial EXCEPT !.position = Head(context).action.position]
                  ELSE spatial
    /\ context' = Tail(context)
    /\ lastSpatial' = NoSpatialCall
    /\ UNCHANGED notSpatialVars

\* spatial.bounds()
DoBounds ==
    /\ spatial' = SpatialBounds(spatial)
    /\ lastSpatial' = [op |-> "bounds", ret |-> SpatialBounds(spatial).bounds]
    /\ UNCHANGED context
    /\ UNCHANGED notSpatialVars

\* the arguments of Bounds::new are -MaxExtent .. MaxExtent
MaxExtent == 2

Extents == -MaxExtent .. MaxExtent

\* Bounds::new(x1, x2, y1, y2)
DoBoundsNew(x1, x2, y1, y2) ==
    /\ lastSpatial' = [op |-> "Bounds::new", x1 |-> x1, x2 |-> x2, y1 |-> y1,
                       y2 |-> y2, ret |-> BoundsNew(x1, x2, y1, y2)]
    /\ UNCHANGED <<spatial, context>>
    /\ UNCHANGED notSpatialVars

(***************************************************************************)
(* Resources                                                               *)
(***************************************************************************)
\* resources one set can hold
MaxResources == 3

ResourceNames == {"a", "b"}
ResourceValues == {0, 1}

\* by_name with name mapped to id
ByNameInsert(by_name, name, id) ==
    [n \in DOMAIN by_name \cup {name} |-> IF n = name THEN id ELSE by_name[n]]

\* Error::Duplicate
Duplicate == [result |-> "Err", error |-> "Duplicate"]

\* Resources::insert: the set afterwards and the value returned
ResourcesInsert(rs, name, resource) ==
    IF name \in DOMAIN rs.by_name
    THEN [resources |-> [buffer |-> Append(rs.buffer, resource),
                         by_name |-> ByNameInsert(rs.by_name, name, Len(rs.buffer))],
          ret |-> [result |-> "Ok", id |-> Len(rs.buffer)]]
    ELSE [resources |-> rs, ret |-> Duplicate]

\* Resources::insert_from: created is what the closure returns, Some(resource)
\* for Ok(resource) and None for Err(e)
ResourcesInsertFrom(rs, name, created) ==
    IF name \in DOMAIN rs.by_name
    THEN [resources |-> rs, ret |-> Duplicate]
    ELSE IF IsNone(created)
         THEN [resources |-> rs, ret |-> [result |-> "Err", error |-> "Create"]]
         ELSE [resources |-> [buffer |-> Append(rs.buffer, created[1]),
                              by_name |-> ByNameInsert(rs.by_name, name, Len(rs.buffer))],
               ret |-> [result |-> "Ok", id |-> Len(rs.buffer)]]

NoResourceCall == [op |-> "none"]

\* Resources::new
ResourcesNew ==
    /\ resources = [buffer |-> <<>>, by_name |-> <<>>]
    /\ lastResource = NoResourceCall

\* resources.insert(name, resource)
DoResourcesInsert(name, resource) ==
    /\ Len(resources.buffer) < MaxResources
    /\ resources' = ResourcesInsert(resources, name, resource).resources
    /\ lastResource' = [op |-> "insert", name |-> name, resource |-> resource,
                        ret |-> ResourcesInsert(resources, name, resource).ret]
    /\ UNCHANGED notResourceVars

\* resources.insert_from(name, create)
DoResourcesInsertFrom(name, created) ==
    /\ Len(resources.buffer) < MaxResources
    /\ resources' = ResourcesInsertFrom(resources, name, created).resources
    /\ lastResource' = [op |-> "insert_from", name |-> name, created |-> created,
                        ret |-> ResourcesInsertFrom(resources, name, created).ret]
    /\ UNCHANGED notResourceVars

(***************************************************************************)
(* Nested containers                                                       *)
(***************************************************************************)
\* columns added to the containers in one behaviour
MaxColumns == 3
\* the configured maximum of the round counter of the system
MaxNestRounds == 3
\* listener ids a caller passes to unregister: 0 .. MaxUnregisterId
MaxUnregisterId == 1
UnregisterIds == 0 .. MaxUnregisterId

\* the shapes, by id; the shape of container c is shape c, shape 3 is a leaf
NestShapeIds == 1 .. 3
NestContainers == {1, 2}
NestAlignments == {"Left"}

\* ChildResized { container } registered by the column-th add_column
ChildResized(container, column) ==
    [type |-> "ChildResized", container |-> container, column |-> column]

\* ContainerMoved { container }
ContainerMoved(container) ==
    [type |-> "ContainerMoved", container |-> container, column |-> 0]

\* a resize listener that is not a container's
OtherListener == [type |-> "Other", container |-> 0, column |-> 0]

\* Shape::new
ShapeNew(position, preferred_size) ==
    [position |-> position, preferred_size |-> preferred_size,
     on_move |-> ArenaNew, on_resize |-> ArenaNew]

\* the listeners a registry holds a strong handle of
ListenersOf(ls) == {IterAll(ls, 0)[i] : i \in 1 .. Len(IterAll(ls, 0))}

RECURSIVE NestColumns(_)
\* the columns of the rows, in order
NestColumns(rs) == IF rs = <<>> THEN <<>> ELSE Head(rs) \o NestColumns(Tail(rs))

\* the shapes a container holds as children
ChildrenOf(cs, c) ==
    {NestColumns(cs[c].rows)[i].child : i \in 1 .. Len(NestColumns(cs[c].rows))}

RECURSIVE Below(_, _, _)
\* the shapes below a set of shapes in the nesting, n levels deep
Below(cs, ss, n) ==
    IF n = 0 THEN {}
    ELSE LET children == UNION {ChildrenOf(cs, c) : c \in ss \cap NestContainers}
         IN children \cup Below(cs, children, n - 1)

\* no container holds its own shape below itself
Acyclic(cs) ==
    \A c \in NestContainers : c \notin Below(cs, {c}, Cardinality(NestShapeIds))

\* the RefCell of a shape, of a container and of the system
ShapeCell(id) == <<"shape", id>>
ContainerCell(c) == <<"container", c>>
SystemCell == <<"system", 0>>

\* a call in progress: the shapes, what is scheduled, the result so far, the
\* cells of which a RefMut is alive, and whether a borrow has been refused
Calling(ss, scheduled, held_cells) ==
    [shapes |-> ss, scheduled |-> scheduled, result |-> "Ok", held |-> held_cells,
     conflict |-> FALSE]

\* try_borrow()? and try_borrow_mut()? refused: BorrowError is returned
Refused(st) == [st EXCEPT !.result = "BorrowError", !.conflict = TRUE]

\* Listeners::try_schedule_notify: system.borrow_mut() panics while a RefMut
\* of the system is alive, otherwise one action per listener is scheduled
NestTryScheduleNotify(st, ls, event) ==
    IF SystemCell \in st.held
    THEN [st EXCEPT !.result = "Panic", !.conflict = TRUE]
    ELSE [st EXCEPT !.scheduled = TryScheduleNotify(ls, event, @)]

\* Shape::set_position calling Listeners::notify: ContainerMoved::notify runs
\* while the RefMut of the shape is alive and is refused the container or
\* the shape of the container when one of them is borrowed
ShapeSetPositionInline(st, id, position) ==
    LET notified == {listener \in ListenersOf(st.shapes[id].on_move) :
                         listener.type = "ContainerMoved"}
    IN [st EXCEPT !.shapes[id].position = position,
                  !.conflict = @ \/ \E listener \in notified :
                      \/ ContainerCell(listener.container) \in st.held
                      \/ ShapeCell(listener.container) \in st.held]

\* Shape::set_position: the position is written and the notification of the
\* on_move listeners is scheduled
ShapeSetPosition(st, id, position) ==
    NestTryScheduleNotify([st EXCEPT !.shapes[id].position = position],
                          st.shapes[id].on_move, id)

\* ShapeRef::set_position: the shape is borrowed for Shape::set_position,
\* whose Result is discarded
ShapeRefSetPosition(st, child, position) ==
    IF st.result # "Ok" THEN st
    ELSE IF ShapeCell(child) \in st.held THEN Refused(st)
    ELSE LET borrowed == [st EXCEPT !.held = @ \cup {ShapeCell(child)}]
         IN [ShapeSetPosition(borrowed, child, position) EXCEPT !.held = st.held]

\* Shape::set_preferred_size that schedules nothing
ShapeSetPreferredSizeSilent(st, id, size) ==
    [st EXCEPT !.shapes[id].preferred_size = size]

\* Shape::set_preferred_size: the size is written and the notification of the
\* on_resize listeners is scheduled
ShapeSetPreferredSize(st, id, size) ==
    NestTryScheduleNotify([st EXCEPT !.shapes[id].preferred_size = size],
                          st.shapes[id].on_resize, id)

\* ShapeRef::set_preferred_size: the shape is borrowed for
\* Shape::set_preferred_size
ShapeRefSetPreferredSize(st, id, size) ==
    IF ShapeCell(id) \in st.held THEN Refused(st)
    ELSE LET borrowed == [st EXCEPT !.held = @ \cup {ShapeCell(id)}]
         IN [ShapeSetPreferredSize(borrowed, id, size) EXCEPT !.held = st.held]

RECURSIVE NestSetPositions(_, _)
\* col.child.set_position(col_position)? for each call of placed, in order
NestSetPositions(st, placed) ==
    IF placed = <<>> THEN st
    ELSE NestSetPositions(ShapeRefSetPosition(st, Head(placed).child,
                                              Head(placed).position),
                          Tail(placed))

\* col.child.preferred_size()? is refused on this row: a RefMut of the shape
\* of one of its children is alive
RowRefused(row, held_cells) ==
    \E i \in 1 .. Len(row) : ShapeCell(row[i].child) \in held_cells

RECURSIVE RowsBeforeRefused(_, _)
\* the rows the layout loop finishes before it returns the BorrowError
RowsBeforeRefused(rs, held_cells) ==
    IF rs = <<>> \/ RowRefused(Head(rs), held_cells) THEN <<>>
    ELSE <<Head(rs)>> \o RowsBeforeRefused(Tail(rs), held_cells)

\* Container::update_after_move of container c, called with the RefMut of
\* the container alive: the shape of the container is borrowed to the end
NestUpdateAfterMove(st, cs, c) ==
    IF ShapeCell(c) \in st.held THEN Refused(st)
    ELSE LET own == [st EXCEPT !.held = @ \cup {ShapeCell(c)}]
             done == RowsBeforeRefused(cs[c].rows, own.held)
             placed == LayoutRows(done, st.shapes[c].position,
                                  st.shapes[c].preferred_size.width,
                                  SizesOf(st.shapes), st.shapes[c].position.y, <<>>)
             moved == NestSetPositions(own, placed)
             ended == IF moved.result = "Ok" /\ Len(done) < Len(cs[c].rows)
                      THEN Refused(moved) ELSE moved
         IN [ended EXCEPT !.held = st.held]

\* Column::size of the column of each child: the preferred size, and
\* Dimension::default() for a shape that cannot be borrowed
ColumnSizes(ss, held_cells) ==
    [id \in 1 .. Len(ss) |-> IF ShapeCell(id) \in held_cells THEN Dimension(0, 0)
                              ELSE ss[id].preferred_size]

\* Container::update_after_resize of container c, called with the RefMut of
\* the container alive: the shape of the container is borrowed to the end
NestUpdateAfterResize(st, cs, c) ==
    IF ShapeCell(c) \in st.held THEN Refused(st)
    ELSE LET own == [st EXCEPT !.held = @ \cup {ShapeCell(c)},
                               !.conflict = @ \/ \E i \in 1 .. Len(cs[c].rows) :
                                   RowRefused(cs[c].rows[i],
                                              st.held \cup {ShapeCell(c)})]
             done == RowsBeforeRefused(cs[c].rows, own.held)
             new_size == NewSize(cs[c].rows, ColumnSizes(st.shapes, own.held))
             placed == LayoutRows(done, st.shapes[c].position, new_size.width,
                                  SizesOf(st.shapes), st.shapes[c].position.y, <<>>)
             moved == NestSetPositions(own, placed)
             ended == IF moved.result # "Ok" THEN moved
                      ELSE IF Len(done) < Len(cs[c].rows) THEN Refused(moved)
                      ELSE ShapeSetPreferredSize(moved, c, new_size)
         IN [ended EXCEPT !.held = st.held]

\* Listener::notify of ChildResized and ContainerMoved: nothing is done when
\* the container is dropped; the container is borrowed for the update
ListenerNotify(st, cs, listener) ==
    IF listener.type = "Other" THEN st
    ELSE IF ~cs[listener.container].alive THEN st
    ELSE IF ContainerCell(listener.container) \in st.held THEN Refused(st)
    ELSE LET borrowed == [st EXCEPT !.held = @ \cup {ContainerCell(listener.container)}]
             updated == IF listener.type = "ChildResized"
                        THEN NestUpdateAfterResize(borrowed, cs, listener.container)
                        ELSE NestUpdateAfterMove(borrowed, cs, listener.container)
         IN [updated EXCEPT !.held = st.held]

\* Container::add_column: the child's shape is borrowed by the caller or not
NestAddColumn(ss, cs, c, child, alignment, column, borrowed) ==
    IF borrowed
    THEN [shapes |-> ss, containers |-> cs, result |-> "BorrowError"]
    ELSE LET r == Insert(ss[child].on_resize, ChildResized(c, column))
         IN [shapes |-> [ss EXCEPT ![child].on_resize = r.arena],
             containers |-> [cs EXCEPT ![c].rows =
                                AddColumn(@, [child |-> child, alignment |-> alignment,
                                              listener_id |-> r.ret])],
             result |-> "Ok"]

RECURSIVE DropColumns(_, _, _)
\* Drop for Column, for each column in order: the listener is unregistered
\* unless the child's shape is borrowed, and the result is discarded
DropColumns(ss, columns, borrowed_shapes) ==
    IF columns = <<>> THEN ss
    ELSE LET col == Head(columns)
         IN DropColumns(
                IF col.child \in borrowed_shapes THEN ss
                ELSE [ss EXCEPT ![col.child].on_resize = Remove(@, col.listener_id).arena],
                Tail(columns), borrowed_shapes)

NoNest == [op |-> "none", ret |-> "Ok"]
NoChange == [op |-> "none", shape |-> 0, sizes |-> <<>>]

\* Shape::new of three shapes and Container::new on the first two
NestNew ==
    /\ nshapes = [id \in NestShapeIds |->
                     IF id \in NestContainers
                     THEN [ShapeNew(Position(0, 0), Dimension(0, 0)) EXCEPT
                               !.on_move = Insert(ArenaNew, ContainerMoved(id)).arena]
                     ELSE ShapeNew(Position(0, 0), Dimension(2, 4))]
    /\ ncontainers = [c \in NestContainers |-> [alive |-> TRUE, rows |-> <<>>]]
    /\ nactive = <<>>
    /\ nactive = <<>> /\ nqueue = <<>>
    /\ nchange = NoChange
    /\ nround = 0
    /\ nerror = "Ok"
    /\ nconflict = FALSE
    /\ lastNest = NoNest

\* the columns all containers hold
ColumnCount(cs) ==
    LET cols == [c \in NestContainers |-> Len(NestColumns(cs[c].rows))]
    IN cols[1] + cols[2]

\* container.add_column(child, alignment)
DoNestAddColumn(c, child, alignment, borrowed) ==
    LET r == NestAddColumn(nshapes, ncontainers, c, child, alignment,
                           ColumnCount(ncontainers) + 1, borrowed)
    IN /\ nactive = <<>> /\ nqueue = <<>>
       /\ nchange = NoChange
       /\ ncontainers[c].alive
       /\ ColumnCount(ncontainers) < MaxColumns
       /\ nshapes' = r.shapes
       /\ ncontainers' = r.containers
       /\ lastNest' = [op |-> "add_column", ret |-> r.result]
       /\ UNCHANGED <<nactive, nqueue, nchange, nround, nerror, nconflict>>
       /\ UNCHANGED notNestVars

\* shape.register_on_resize(listener) by something that is not a container
DoRegisterOnResize(id) ==
    /\ nactive = <<>> /\ nqueue = <<>>
    /\ nchange = NoChange
    /\ ColumnCount(ncontainers) = 0
    /\ OtherListener \notin ListenersOf(nshapes[id].on_resize)
    /\ nshapes' = [nshapes EXCEPT ![id].on_resize = Insert(@, OtherListener).arena]
    /\ lastNest' = NoNest
    /\ UNCHANGED <<ncontainers, nactive, nqueue, nchange, nround, nerror, nconflict>>
    /\ UNCHANGED notNestVars

\* shape.register_on_move(listener) by something that is not a container
DoRegisterOnMove(id) ==
    /\ nactive = <<>> /\ nqueue = <<>>
    /\ nchange = NoChange
    /\ OtherListener \notin ListenersOf(nshapes[id].on_move)
    /\ nshapes' = [nshapes EXCEPT ![id].on_move = Insert(@, OtherListener).arena]
    /\ lastNest' = [op |-> "register_on_move", ret |-> "Ok",
                    id |-> Insert(nshapes[id].on_move, OtherListener).ret]
    /\ UNCHANGED <<ncontainers, nactive, nqueue, nchange, nround, nerror, nconflict>>
    /\ UNCHANGED notNestVars

\* shape.unregister_on_move(listener_id): the listener stored under the id,
\* whoever registered it, is taken out and returned
DoUnregisterOnMove(id, listener_id) ==
    LET r == Remove(nshapes[id].on_move, listener_id)
    IN /\ nactive = <<>> /\ nqueue = <<>>
       /\ nchange = NoChange
          /\ nshapes' = [nshapes EXCEPT ![id].on_move = r.arena]
       /\ lastNest' = [op |-> "unregister_on_move", ret |-> "Ok", removed |-> r.ret]
       /\ UNCHANGED <<ncontainers, nactive, nqueue, nchange, nround, nerror, nconflict>>
       /\ UNCHANGED notNestVars

\* shape.unregister_on_resize(listener_id) through a ShapeRef, while the
\* caller has the shape borrowed or not: the listener stored under the id,
\* whoever registered it, is taken out and returned
DoUnregisterOnResize(id, listener_id, borrowed) ==
    LET r == Remove(nshapes[id].on_resize, listener_id)
    IN /\ nactive = <<>> /\ nqueue = <<>>
       /\ nchange = NoChange
       /\ nshapes' = IF borrowed THEN nshapes
                     ELSE [nshapes EXCEPT ![id].on_resize = r.arena]
       /\ lastNest' = IF borrowed
                       THEN [op |-> "unregister_on_resize", ret |-> "BorrowError",
                             removed |-> None]
                       ELSE [op |-> "unregister_on_resize", ret |-> "Ok",
                             removed |-> r.ret]
       /\ UNCHANGED <<ncontainers, nactive, nqueue, nchange, nround, nerror, nconflict>>
       /\ UNCHANGED notNestVars

\* the last Rc of container c is dropped while the caller has the shapes of
\* borrowed_shapes borrowed: its columns are dropped
DoDropContainer(c, borrowed_shapes) ==
    /\ nactive = <<>> /\ nqueue = <<>>
    /\ nchange = NoChange
    /\ ncontainers[c].alive
    /\ nshapes' = DropColumns(nshapes, NestColumns(ncontainers[c].rows), borrowed_shapes)
    /\ ncontainers' = [ncontainers EXCEPT ![c] = [alive |-> FALSE, rows |-> <<>>]]
    /\ lastNest' = [op |-> "drop", ret |-> "Ok"]
    /\ UNCHANGED <<nactive, nqueue, nchange, nround, nerror, nconflict>>
    /\ UNCHANGED notNestVars

\* shape.set_preferred_size(size) through a ShapeRef of shape id, while the
\* caller has the cells of held_cells borrowed
DoNestResize(id, size, held_cells) ==
    LET r == ShapeRefSetPreferredSize(Calling(nshapes, nactive, held_cells), id, size)
    IN /\ nchange = NoChange
       /\ nchange' = [op |-> "resize", shape |-> id, sizes |-> SizesOf(nshapes)]
       /\ nshapes' = r.shapes
       /\ nactive' = r.scheduled
       /\ lastNest' = [op |-> "set_preferred_size", ret |-> r.result]
       /\ UNCHANGED <<ncontainers, nqueue, nround, nerror, nconflict>>
       /\ UNCHANGED notNestVars

\* shape.set_position(position) through a ShapeRef of shape id, while the
\* caller has the cells of held_cells borrowed
DoNestMove(id, position, held_cells) ==
    LET r == ShapeRefSetPosition(Calling(nshapes, nactive, held_cells), id, position)
    IN /\ nchange = NoChange
       /\ nchange' = [op |-> "move", shape |-> id, sizes |-> SizesOf(nshapes)]
       /\ nshapes' = r.shapes
       /\ nactive' = r.scheduled
       /\ lastNest' = [op |-> "set_position", ret |-> r.result]
       /\ UNCHANGED <<ncontainers, nqueue, nround, nerror, nconflict>>
       /\ UNCHANGED notNestVars

\* the listeners some registry holds: the weak handle of an action upgrades
NestLiving(ss) ==
    UNION {ListenersOf(ss[id].on_move) \cup ListenersOf(ss[id].on_resize) :
               id \in NestShapeIds}

\* the cells the system keeps borrowed while it runs an action: none, the
\* actions of a round schedule into the active buffer
ExecutorHolds == {}

\* the system begins a round: while something is scheduled the two buffers
\* are swapped and the round is counted; beyond the maximum the update cycle
\* ends with ActionLoop
NestSwap ==
    /\ nqueue = <<>>
    /\ nactive # <<>>
    /\ IF nround >= MaxNestRounds
       THEN /\ nerror' = "ActionLoop"
            /\ nactive' = <<>>
            /\ lastNest' = [op |-> "swap", ret |-> "ActionLoop"]
            /\ UNCHANGED <<nqueue, nround>>
       ELSE /\ nqueue' = nactive
            /\ nactive' = <<>>
            /\ nround' = nround + 1
            /\ lastNest' = [op |-> "swap", ret |-> "Ok"]
            /\ UNCHANGED nerror
    /\ UNCHANGED <<nshapes, ncontainers, nchange, nconflict>>
    /\ UNCHANGED notNestVars

\* the system executes the next action of the round; what it schedules goes
\* to the active buffer for the next round; an Err or a panic aborts the
\* update cycle
NestExecute ==
    /\ nqueue # <<>>
    /\ LET action == Head(nqueue)
           st == Calling(nshapes, nactive, ExecutorHolds)
           r == IF action.listener \in NestLiving(nshapes)
                THEN ListenerNotify(st, ncontainers, action.listener)
                ELSE st
       IN /\ nshapes' = r.shapes
          /\ nqueue' = IF r.result = "Ok" THEN Tail(nqueue) ELSE <<>>
          /\ nactive' = IF r.result = "Ok" THEN r.scheduled ELSE <<>>
          /\ nerror' = r.result
          /\ nconflict' = (nconflict \/ r.conflict)
          /\ lastNest' = [op |-> "execute", ret |-> r.result]
    /\ UNCHANGED <<ncontainers, nchange, nround>>
    /\ UNCHANGED notNestVars

UiNew == ListenersNew /\ ButtonNew /\ ContainerNew /\ ManagerInit /\ SpatialNew
             /\ ResourcesNew /\ NestNew

(***************************************************************************)
(* Specifications                                                          *)
(***************************************************************************)
\* one arena under insert, get, get_mut and remove
ArenaInit == ArenasNew /\ ActionsNew(1) /\ UiNew

ArenaNext ==
    \/ \E object \in Values : DoInsert("first", object)
    \/ \E id \in Ids : DoGet("first", id)
    \/ \E id \in Ids : DoGetMut("first", id)
    \/ \E id \in Ids, object \in Values : DoGetMutWrite("first", id, object)
    \/ \E id \in Ids : DoRemove("first", id)

ArenaSpec == ArenaInit /\ [][ArenaNext]_vars

\* the objects stored in the arenas that are compared
EqValues == {1, 2}

\* two arenas under insert and remove, compared with ==
EqNext ==
    \/ \E name \in ArenaNames, object \in EqValues : DoInsert(name, object)
    \/ \E name \in ArenaNames, id \in Ids : DoRemove(name, id)
    \/ DoEq

EqSpec == ArenaInit /\ [][EqNext]_vars

\* one arena under insert and remove, and iterators over it
IterNext ==
    \/ \E object \in Values : DoInsert("first", object)
    \/ \E id \in Ids : DoRemove("first", id)
    \/ DoIter("first")
    \/ DoIterNext

IterSpec == ArenaInit /\ [][IterNext]_vars

\* an Actions object under schedule and execute
ActionsInit == ArenasNew /\ UiNew /\ \E m \in 0 .. MaxMaxRuns : ActionsNew(m)

ActionsNext ==
    \/ \E k \in Kinds : DoSchedule(k)
    \/ ExecuteBegin
    \/ LoopActionLoop
    \/ LoopOk
    \/ LoopSwap
    \/ \E outcome \in {"Ok", "Err"} : RoundAction(outcome)
    \/ RoundEnd

ActionsSpec == ActionsInit /\ [][ActionsNext]_vars

\* a listener registry notified and its notifications executed by the system
ListenersNext ==
    \/ \E keep \in BOOLEAN : DoRegister(keep)
    \/ \E id \in 0 .. MaxListeners, keep \in BOOLEAN : DoUnregister(id, keep)
    \/ \E listener \in 1 .. MaxListeners : DoDropListener(listener)
    \/ DoDropSystem
    \/ \E oks \in 0 .. MaxListeners : DoNotify(oks)
    \/ DoTryScheduleNotify
    \/ SystemBegin
    \/ \E outcome \in {"Ok", "Err"} : SystemAction(outcome)
    \/ SystemEnd

ListenersSpec == ArenaInit /\ [][ListenersNext]_vars

\* a registry whose listeners come and go between scheduled notifications
RegistryNext ==
    \/ \E keep \in BOOLEAN : DoRegister(keep)
    \/ \E id \in 0 .. MaxListeners, keep \in BOOLEAN : DoUnregister(id, keep)
    \/ DoTryScheduleNotify
    \/ DoDropSystem

RegistrySpec == ArenaInit /\ [][RegistryNext]_vars

\* widgets created, decorated and looked up
ManagerNext ==
    \/ DoCreateWidget
    \/ \E kind \in Decorators, widget_id \in WidgetIds : DoDecorate(kind, widget_id)
    \/ \E kind \in Capabilities, widget_id \in WidgetIds : DoGetComponent(kind, widget_id)

ManagerSpec == ArenaInit /\ [][ManagerNext]_vars

\* widgets handed components through their WidgetBuilder
BuilderNext ==
    \/ DoCreateWidget
    \/ \E kind \in Capabilities, widget_id \in WidgetIds : DoSet(kind, widget_id)

BuilderSpec == ArenaInit /\ [][BuilderNext]_vars

\* widgets handed components directly and read through a Context
AccessorNext ==
    \/ DoCreateWidget
    \/ \E kind \in Capabilities, widget_id \in WidgetIds : DoSet(kind, widget_id)
    \/ \E kind \in Capabilities, widget_id \in WidgetIds : DoGetComponent(kind, widget_id)

AccessorSpec == ArenaInit /\ [][AccessorNext]_vars

\* a Spatial that is moved and asked for its bounds
SpatialNext ==
    \/ DoAddMoveListener
    \/ \E id \in 0 .. MaxMoveListeners : DoRemoveMoveListener(id)
    \/ \E position \in SpatialPositions : DoSetPosition(position)
    \/ \E position \in SpatialPositions : DoScheduleSetPosition(position)
    \/ DoExecuteScheduled
    \/ DoBounds

SpatialSpec == ArenaInit /\ [][SpatialNext]_vars

\* bounding boxes made from corners given in any order
BoundsNext ==
    \E x1 \in Extents, x2 \in Extents, y1 \in Extents, y2 \in Extents :
        DoBoundsNew(x1, x2, y1, y2)

BoundsSpec == ArenaInit /\ [][BoundsNext]_vars

\* containers filled with columns and dropped, on shapes that carry a resize
\* listener of somebody else, who may unregister it again
ColumnsNext ==
    \/ \E c \in NestContainers, child \in NestShapeIds, alignment \in NestAlignments,
          borrowed \in BOOLEAN :
           DoNestAddColumn(c, child, alignment, borrowed)
    \/ \E id \in NestShapeIds : DoRegisterOnResize(id)
    \/ \E id \in NestShapeIds, listener_id \in UnregisterIds :
           /\ Get(nshapes[id].on_resize, listener_id).ret = Some(OtherListener)
           /\ DoUnregisterOnResize(id, listener_id, FALSE)
    \/ \E c \in NestContainers, borrowed_shapes \in {{}} \cup {{id} : id \in NestShapeIds} :
           DoDropContainer(c, borrowed_shapes)

ColumnsSpec == ArenaInit /\ [][ColumnsNext]_vars

\* nested containers, one shape resized or moved, and the system running the
\* notifications until nothing is scheduled
CascadeNext ==
    \/ \E c \in NestContainers, child \in NestShapeIds, alignment \in NestAlignments :
           DoNestAddColumn(c, child, alignment, FALSE)
    \/ \E id \in NestShapeIds, size \in Sizes : DoNestResize(id, size, {})
    \/ \E id \in NestShapeIds, position \in Origins : DoNestMove(id, position, {})
    \/ NestSwap
    \/ NestExecute

CascadeSpec == ArenaInit /\ [][CascadeNext]_vars

\* shapes outside any container: listeners registered and unregistered by
\* hand, under ids that are occupied, free or past the end, then one shape
\* moved or resized and the system running the notifications
ShapeListenersNext ==
    \/ \E id \in NestShapeIds : DoRegisterOnMove(id)
    \/ \E id \in NestShapeIds, listener_id \in UnregisterIds :
           DoUnregisterOnMove(id, listener_id)
    \/ \E id \in NestShapeIds : DoRegisterOnResize(id)
    \/ \E id \in NestShapeIds, listener_id \in UnregisterIds, borrowed \in BOOLEAN :
           DoUnregisterOnResize(id, listener_id, borrowed)
    \/ \E id \in NestShapeIds, size \in Sizes :
           \E held_cells \in {{}, {SystemCell}, {ShapeCell(id)}} :
               DoNestResize(id, size, held_cells)
    \/ \E id \in NestShapeIds, position \in Origins :
           \E held_cells \in {{}, {SystemCell}, {ShapeCell(id)}} :
               DoNestMove(id, position, held_cells)
    \/ NestSwap
    \/ NestExecute

ShapeListenersSpec == ArenaInit /\ [][ShapeListenersNext]_vars

\* a set of resources filled by insert and insert_from
ResourcesNext ==
    \/ \E name \in ResourceNames, resource \in ResourceValues : DoResourcesInsert(name, resource)
    \/ \E name \in ResourceNames, created \in {None} \cup {Some(v) : v \in ResourceValues} :
           DoResourcesInsertFrom(name, created)

ResourcesSpec == ArenaInit /\ [][ResourcesNext]_vars

\* a button widget under mouse motion and mouse button events
ButtonNext ==
    \/ \E position \in Positions : DoMouseMotion(position)
    \/ \E kind \in {"Pressed", "Released"}, position \in Positions :
           DoMouseButton(kind, position)
    \/ HandleMotion
    \/ HandleOver
    \/ HandleButton

ButtonSpec == ArenaInit /\ [][ButtonNext]_vars

\* a container filled, moved and its children resized
LayoutNext ==
    \/ DoAddRow
    \/ \E size \in Sizes, alignment \in Alignments : DoAddColumn(size, alignment)
    \/ \E position \in Origins : DoMoveContainer(position)
    \/ \E child \in 1 .. MaxChildren, size \in Sizes : DoResizeChild(child, size)
    \/ UpdateAfterMove
    \/ UpdateAfterResize
    \/ ChildMoved

LayoutSpec == ArenaInit /\ [][LayoutNext]_vars

\* a container of one row filled, moved and its children resized
AlignNext ==
    \/ \E size \in Sizes, alignment \in Alignments : DoAddColumn(size, alignment)
    \/ \E position \in Origins : DoMoveContainer(position)
    \/ \E child \in 1 .. MaxChildren, size \in Sizes : DoResizeChild(child, size)
    \/ UpdateAfterMove
    \/ UpdateAfterResize
    \/ ChildMoved

AlignSpec == ArenaInit /\ [][AlignNext]_vars

\* a container filled with rows and columns
RowsNext ==
    \/ DoAddRow
    \/ \E size \in Sizes, alignment \in Alignments : DoAddColumn(size, alignment)

RowsSpec == ArenaInit /\ [][RowsNext]_vars

(***************************************************************************)
(* Properties of the arena                                                 *)
(***************************************************************************)
\* the object stored under id, None where there is none
Stored(ar, id) == IF id < Len(ar.buffer) THEN ar.buffer[id + 1] ELSE None

\* the ids under which an object is stored
Occupied(ar) == {id \in 0 .. Len(ar.buffer) - 1 : IsSome(Stored(ar, id))}

\* the smallest id under which nothing is stored
SmallestVacant(ar) == Min({id \in 0 .. Len(ar.buffer) : IsNone(Stored(ar, id))})

\* the (id, object) pairs an arena holds
Pairs(ar) == {<<id, Stored(ar, id)[1]>> : id \in Occupied(ar)}

\* the (id, object) pairs of an arena, by ascending id
RECURSIVE PairsFrom(_, _)
PairsFrom(ar, id) ==
    IF id >= Len(ar.buffer) THEN <<>>
    ELSE IF IsSome(Stored(ar, id))
         THEN <<(<<id, Stored(ar, id)[1]>>)>> \o PairsFrom(ar, id + 1)
         ELSE PairsFrom(ar, id + 1)

\* C1: insert never fails and returns the smallest available id: the smallest
\* id of the free set if there is one, otherwise the length of the buffer;
\* that id is the smallest one with nothing stored, and the object is stored
\* under it afterwards.
C1_InsertSmallestAvailable ==
    [][last'.op = "insert" =>
        LET ar == arenas[last'.arena] IN
        /\ ~panicked'
        /\ last'.retId = (IF ar.free # {} THEN Min(ar.free) ELSE Len(ar.buffer))
        /\ last'.retId = SmallestVacant(ar)
        /\ Stored(arenas'[last'.arena], last'.retId) = Some(last'.val)]_vars

\* an insert has reused the smaller of two freed ids
C1_Witness ==
    /\ last.op = "insert"
    /\ arenas[last.arena].free # {}
    /\ last.retId < Min(arenas[last.arena].free)

\* C2: a live id keeps its object across every insert and every remove of
\* another id, and no insert returns an id that is live.
C2_StableIds ==
    [][\A name \in ArenaNames : \A id \in Occupied(arenas[name]) :
        /\ (last'.op = "insert" /\ last'.arena = name) => last'.retId # id
        /\ (/\ last'.op \in {"insert", "remove"}
            /\ ~(last'.op = "remove" /\ last'.arena = name /\ last'.id = id))
           => Stored(arenas'[name], id) = Stored(arenas[name], id)]_vars

\* a remove has truncated the buffer through a hole while id 0 stays live
C2_Witness ==
    /\ last.op = "remove"
    /\ IsSome(last.retOpt)
    /\ Len(arenas[last.arena].buffer) < last.id
    /\ 0 \in Occupied(arenas[last.arena])

\* C3: get, get_mut and remove of an id that is out of range or freed return
\* None, do not panic and leave buffer and free set as they are; remove of an
\* occupied id returns the stored object and nothing is stored under it after.
C3_AbsentIds ==
    [][last'.op \in {"get", "get_mut", "remove"} =>
        LET ar == arenas[last'.arena] IN
        /\ ~panicked'
        /\ last'.retOpt = Stored(ar, last'.id)
        /\ IsNone(Stored(ar, last'.id)) => arenas' = arenas
        /\ last'.op \in {"get", "get_mut"} => arenas' = arenas
        /\ last'.op = "remove" => IsNone(Stored(arenas'[last'.arena], last'.id))]_vars

\* a remove of a freed id inside the buffer has returned None
C3_Witness ==
    /\ last.op = "remove"
    /\ IsNone(last.retOpt)
    /\ last.id < Len(arenas[last.arena].buffer)

\* C4: the buffer of an arena is empty or its last slot is occupied.
C4_NoTrailingHole ==
    \A name \in ArenaNames :
        \/ arenas[name].buffer = <<>>
        \/ IsSome(arenas[name].buffer[Len(arenas[name].buffer)])

\* a remove of the last slot has also dropped the hole before it
C4_Witness ==
    /\ last.op = "remove"
    /\ IsSome(last.retOpt)
    /\ Len(arenas[last.arena].buffer) = last.id - 1
    /\ Len(arenas[last.arena].buffer) >= 1

\* C5: first == second exactly when the two arenas hold the same (id, object)
\* pairs.
C5_EqIffSamePairs ==
    last.op = "eq" => (last.retBool <=> Pairs(arenas["first"]) = Pairs(arenas["second"]))

\* two arenas with a hole each have compared equal
C5_Witness ==
    /\ last.op = "eq"
    /\ last.retBool
    /\ arenas["first"].free # {}
    /\ arenas["second"].free # {}

\* C6: an iterator has yielded the occupied (id, object) pairs in ascending id
\* order, as far as it got; once next() has returned None it has yielded them
\* all, and next() returns None only then.
C6_IterOccupiedAscending ==
    iter.active =>
        LET all == PairsFrom(arenas[iter.arena], 0) IN
        /\ Len(iter.yielded) <= Len(all)
        /\ iter.yielded = SubSeq(all, 1, Len(iter.yielded))
        /\ iter.nones > 0 => iter.yielded = all
        /\ (last.op = "next" /\ IsNone(last.retOpt)) => iter.nones > 0

\* an iterator has skipped a hole and then returned None twice
C6_Witness ==
    /\ iter.active
    /\ iter.nones >= 2
    /\ Len(iter.yielded) >= 2
    /\ iter.yielded[2][1] > iter.yielded[1][1] + 1

(***************************************************************************)
(* Properties of the scheduler                                             *)
(***************************************************************************)
\* the rounds are numbered across the calls of Actions::execute: round r + 1
\* is the round begun by the swap after the one of round r

\* action uid has run in round r before the log entry i
RanBefore(uid, r, i) == \E j \in 1 .. i - 1 : log[j].uid = uid /\ log[j].round = r

\* every action of the buffer of round r has run in round r before log entry i
RoundDoneBefore(r, i) ==
    \A n \in 1 .. Len(roundBuf[r].uids) : RanBefore(roundBuf[r].uids[n], r, i)

\* the log entries of round r
EntriesOf(r) == {i \in 1 .. Len(log) : log[i].round = r}

\* C7: an action scheduled while round N runs is first run in round N+1, and
\* by then every action of round N has run.
C7_ScheduledRunsNextRound ==
    \A i \in 1 .. Len(log) :
        (log[i].sched > 0 /\ \A j \in 1 .. i - 1 : log[j].uid # log[i].uid) =>
            /\ log[i].round = log[i].sched + 1
            /\ RoundDoneBefore(log[i].sched, i)

\* C8: one call of Actions::execute runs at most max_runs rounds.
C8_AtMostMaxRunsRounds == callRounds <= max_runs

\* C9: a call of execute on an Actions object that holds a chain of N actions,
\* the first scheduled and each scheduling the next, returns Ok after exactly
\* N rounds, each of which ran exactly one action: the next one of the chain.
C9_ChainTakesNRounds ==
    (/\ pc = "idle"
     /\ result = "Ok"
     /\ callStart.buffer = <<>>
     /\ Len(callStart.scheduler) = 1
     /\ callStart.scheduler[1].kind[1] = "chain")
    => LET n == callStart.scheduler[1].kind[2] IN
       /\ callRounds = n
       /\ \A c \in 1 .. n :
            /\ Cardinality(EntriesOf(round - n + c)) = 1
            /\ \A i \in EntriesOf(round - n + c) : log[i].kind = Chain(n - c + 1)

\* a chain of three actions has settled
C9_Witness ==
    /\ pc = "idle"
    /\ result = "Ok"
    /\ callStart.buffer = <<>>
    /\ callStart.scheduler # <<>>
    /\ callStart.scheduler[1].kind = Chain(3)
    /\ Len(callStart.scheduler) = 1
    /\ callRounds = 3

\* C10: the actions of one round run in the order in which they were
\* scheduled, and every action of round N has run before the first action of
\* round N+1 runs.
C10_FifoBreadthFirst ==
    \A i \in 1 .. Len(log) :
        /\ \A j \in 1 .. i - 1 : log[j].round = log[i].round => log[j].uid < log[i].uid
        /\ log[i].round > 1 => RoundDoneBefore(log[i].round - 1, i)

\* action uid has been run
HasRun(uid) == \E i \in 1 .. Len(log) : log[i].uid = uid

\* C11: there is no cancellation: when Actions::execute has returned Ok and
\* nothing was scheduled since, every action that was ever scheduled has been
\* run, also when an action of its round returned an error in an earlier call.
C11_NoCancellation ==
    (pc = "idle" /\ result = "Ok" /\ ~HasScheduled(scheduler)) =>
        \A uid \in 1 .. nextUid - 1 : HasRun(uid)

(***************************************************************************)
(* Properties of the listeners                                             *)
(***************************************************************************)
\* the actions a notification of event is to enqueue: one per registered
\* listener by ascending id, with that listener and that event
Notifications(ls, event) ==
    [i \in 1 .. Len(PairsFrom(ls, 0)) |-> [event |-> event, listener |-> PairsFrom(ls, 0)[i][2]]]

\* C12: notifying a registry never invokes a callback synchronously: a
\* notification that returned Ok has enqueued exactly one action per registered
\* listener, in ascending listener id order, each with its listener and the one
\* event, and callbacks are only ever invoked by an executing action.
C12_NotifyOnlySchedules ==
    /\ \A i \in 1 .. Len(invoked) : invoked[i].via = "action"
    /\ (lastNotify.op # "none" /\ lastNotify.result = "Ok") =>
           system = lastNotify.before \o Notifications(listeners, lastNotify.event)

\* C13: executing the action of a listener that was dropped after the
\* notification was scheduled is a silent no-op: the listener is not invoked,
\* the action returns Ok and the round goes on to its next action.
C13_DroppedListenerNoOp ==
    [][(/\ lpc = "round"
        /\ lpos <= Len(system)
        /\ executed' # executed
        /\ system[lpos].listener \notin Living(listeners, held))
       => /\ invoked' = invoked
          /\ executed'[Len(executed')].result = "Ok"
          /\ lpc' = "round"
          /\ lpos' = lpos + 1
          /\ system' = system]_vars

\* an action of a dropped listener was executed and a later action of the same
\* round invoked its listener
C13_Witness ==
    \E i, j \in 1 .. Len(executed) :
        /\ i < j
        /\ executed[i].round = executed[j].round
        /\ ~executed[i].invoked
        /\ executed[i].result = "Ok"
        /\ executed[j].invoked

\* the listeners registered in ls
Registered(ls) == {PairsFrom(ls, 0)[i] : i \in 1 .. Len(PairsFrom(ls, 0))}

\* C27: unregistering an id that is not registered returns None and leaves the
\* registered set unchanged; unregistering a registered id returns its listener
\* and removes exactly that listener, which a notification scheduled from then
\* on no longer reaches; and a scheduled notification only ever reaches the
\* listeners registered when it is scheduled.
C27_UnregisterExactlyThat ==
    [][/\ \A id \in 0 .. MaxListeners :
              (/\ UNCHANGED <<system, sysAlive, lpc, lpos, lround,
                              nextListener, nextEvent, invoked, executed>>
               /\ \E keep \in BOOLEAN : DoUnregister(id, keep)) =>
                  IF \E p \in Registered(listeners) : p[1] = id
                  THEN /\ IsSome(Remove(listeners, id).ret)
                       /\ <<id, Remove(listeners, id).ret[1]>> \in Registered(listeners)
                       /\ Registered(listeners') =
                              {p \in Registered(listeners) : p[1] # id}
                       /\ \A i \in 1 .. Len(TryScheduleNotify(listeners', 0, <<>>)) :
                              <<id, TryScheduleNotify(listeners', 0, <<>>)[i].listener>>
                                  \notin Registered(listeners)
                  ELSE /\ IsNone(Remove(listeners, id).ret)
                       /\ listeners' = listeners
       /\ DoTryScheduleNotify =>
              \A i \in Len(system) + 1 .. Len(system') :
                  \E p \in Registered(listeners) : p[2] = system'[i].listener]_vars

\* one of two registered listeners was unregistered and a notification
\* scheduled afterwards reached the other one only
C27_Witness ==
    /\ lastNotify.op = "try_schedule_notify"
    /\ lastNotify.result = "Ok"
    /\ nextListener = 3
    /\ Cardinality(Registered(listeners)) = 1
    /\ Len(system) = 1
    /\ \E p \in Registered(listeners) : system[1].listener = p[2]

(***************************************************************************)
(* Properties of the manager and of decoration                             *)
(***************************************************************************)
\* the widget stored under widget_id, if any
WidgetOf(m, widget_id) == Stored(m.widgets, widget_id)

\* C22: a Context accessor for widget w and capability X returns NoWidget when
\* w is not in the widget arena, NoComponent when w has no X component or the
\* slot of its component id is empty, and otherwise the X component stored
\* under the component id of w; the lookup changes nothing in the Manager.
C22_AccessorResolvesOrFails ==
    [][lastManager'.op = "get" =>
          LET w == lastManager'.widget_id
              kind == lastManager'.kind
          IN /\ manager' = manager
             /\ IF IsNone(WidgetOf(manager, w))
                THEN lastManager'.result = "NoWidget" /\ IsNone(lastManager'.ret)
                ELSE IF \/ IsNone(WidgetOf(manager, w)[1][kind])
                        \/ IsNone(Stored(manager.components[kind],
                                         WidgetOf(manager, w)[1][kind][1]))
                     THEN lastManager'.result = "NoComponent" /\ IsNone(lastManager'.ret)
                     ELSE /\ lastManager'.result = "Ok"
                          /\ lastManager'.ret =
                                 Stored(manager.components[kind],
                                        WidgetOf(manager, w)[1][kind][1])]_vars

\* a component of the second widget, stored under component id 0, was looked up
C22_Witness ==
    /\ lastManager.op = "get"
    /\ lastManager.widget_id = 1
    /\ IsSome(WidgetOf(manager, 1))
    /\ WidgetOf(manager, 1)[1][lastManager.kind] = Some(0)
    /\ lastManager.result = "Ok"
    /\ lastManager.ret = Some(ComponentNew)

\* the widget has the capability
Has(m, h, kind, widget_id) ==
    IF kind = "mouse_over_target" THEN HasHover(m, h, widget_id).ret
    ELSE HasComponent(m, kind, widget_id).ret

\* C23: decoration is idempotent for every capability: decorating a widget
\* that has the capability changes nothing in the Manager (no component is
\* inserted, no component id changes, no handler is added), and decorating
\* twice leaves the Manager that decorating once leaves.
C23_DecorateIdempotent ==
    \A kind \in Decorators, widget_id \in WidgetIds :
        /\ Has(manager, hover, kind, widget_id) =>
               LET r == Decorate(kind, manager, hover, widget_id)
               IN r.manager = manager /\ r.hover = hover
        /\ LET once == Decorate(kind, manager, hover, widget_id)
               twice == Decorate(kind, once.manager, once.hover, widget_id)
           IN twice.manager = once.manager /\ twice.hover = once.hover

\* C24: components are never shared between widgets: for each capability no
\* two distinct widgets hold the same component id.
C24_NoSharedComponent ==
    \A kind \in Capabilities, v, w \in WidgetIds :
        (/\ v # w
         /\ IsSome(WidgetOf(manager, v))
         /\ IsSome(WidgetOf(manager, w))
         /\ IsSome(WidgetOf(manager, v)[1][kind])
         /\ IsSome(WidgetOf(manager, w)[1][kind]))
        => WidgetOf(manager, v)[1][kind] # WidgetOf(manager, w)[1][kind]

\* two widgets were each handed a component of the same capability
C24_Witness ==
    /\ sets = 2
    /\ \E kind \in Capabilities :
           /\ IsSome(WidgetOf(manager, 0)) /\ IsSome(WidgetOf(manager, 1))
           /\ IsSome(WidgetOf(manager, 0)[1][kind])
           /\ IsSome(WidgetOf(manager, 1)[1][kind])

(***************************************************************************)
(* Properties of the spatial component                                     *)
(***************************************************************************)
\* the position a scheduled action carries, if it carries one
Carried(scheduled) ==
    IF "position" \in DOMAIN scheduled.action
    THEN Some(scheduled.action.position)
    ELSE None

\* C25: set_position stores the new position and schedules exactly one
\* notification per registered move listener, and the notification delivered
\* to each listener carries the new position.
C25_SetPositionNotifies ==
    [][\A position \in SpatialPositions :
          DoSetPosition(position) =>
              /\ spatial'.position = position
              /\ Len(context') =
                     Len(context) + Cardinality(Registered(spatial.move_listeners))
              /\ \A p \in Registered(spatial.move_listeners) :
                     Cardinality({i \in Len(context) + 1 .. Len(context') :
                                     context'[i].action = p[2].action}) = 1
              /\ \A i \in Len(context) + 1 .. Len(context') :
                     Carried(context'[i]) = Some(position)]_vars

\* C26: the bounds a query returns are never stale: they are the rectangle of
\* the current position and preferred size, whatever was written before.
C26_BoundsNeverStale ==
    lastSpatial.op = "bounds" =>
        lastSpatial.ret = BoundsOf(spatial.position, spatial.preferred_size)

(***************************************************************************)
(* Properties of the mouse targets and the button                          *)
(***************************************************************************)
\* the ClickHandler action of a Released event is executed in this step
ReleaseHandled ==
    /\ handlerQueue # <<>>
    /\ Head(handlerQueue).handler = "ClickHandler"
    /\ Head(handlerQueue).event.kind = "Released"
    /\ handlerQueue' = Tail(handlerQueue)

\* the position of the event handled in this step is within the bounds
HandledWithin == ContainsPosition(ButtonBounds, Head(handlerQueue).event.position)

\* C14: the hover target starts Outside and is edge-triggered: the
\* MouseOverEvents it emits alternate strictly, Entered first, and within tells
\* whether the last one emitted was Entered.
C14_HoverAlternates ==
    /\ \A i \in 1 .. Len(overs) : overs[i] = IF i % 2 = 1 THEN "Entered" ELSE "Exited"
    /\ within <=> (Len(overs) % 2 = 1)

\* the pointer has entered, left and entered again
C14_Witness == Len(overs) >= 3 /\ within

\* C15: a press within the bounds followed by a release within the bounds emits
\* exactly one ButtonEvent, with the button's widget id as source_id, and
\* leaves pressed false.
C15_PressReleaseInsideClicks ==
    [][(ReleaseHandled /\ armed /\ HandledWithin)
       => /\ clicks' = Append(clicks, [source_id |-> ButtonId])
          /\ pressed' = FALSE]_vars

\* a release within the bounds was handled after a press within the bounds,
\* and it was not the first release of the button
C15_Witness ==
    /\ lastHandled.handler = "ClickHandler"
    /\ lastHandled.kind = "Released"
    /\ lastHandled.contained
    /\ lastHandled.armed
    /\ Len(clicks) >= 2
    /\ ~pressed

\* C16: a press within the bounds followed by a release outside the bounds
\* emits no ButtonEvent.
C16_ReleaseOutsideNoClick ==
    [][(ReleaseHandled /\ armed /\ ~HandledWithin) => clicks' = clicks]_vars

\* C17: a release with no press within the bounds since the button was created
\* or last released emits no ButtonEvent.
C17_ReleaseUnarmedNoClick ==
    [][(ReleaseHandled /\ ~armed) => clicks' = clicks]_vars

(***************************************************************************)
(* Properties of the container layout                                      *)
(***************************************************************************)
\* the preferred size of the child of column c of row r
ColumnSize(r, c) == shapes[rows[r][c].child].preferred_size

\* the position of the child of column c of row r
ColumnPosition(r, c) == shapes[rows[r][c].child].position

\* the height of row r: the largest preferred height of its columns
RowMax(r) == Max({0} \cup {ColumnSize(r, c).height : c \in 1 .. Len(rows[r])})

RECURSIVE RowY(_)
\* where row r begins: the container's y advanced once per earlier row
RowY(r) == IF r = 1 THEN shape.position.y ELSE RowY(r - 1) + RowMax(r - 1)

RECURSIVE WidthUpTo(_, _, _)
\* the width of the columns 1 .. n of row r that have the alignment
WidthUpTo(r, n, alignment) ==
    IF n = 0 THEN 0
    ELSE WidthUpTo(r, n - 1, alignment)
         + (IF rows[r][n].alignment = alignment THEN ColumnSize(r, n).width ELSE 0)

\* the width of all columns of row r that have the alignment
GroupWidth(r, alignment) == WidthUpTo(r, Len(rows[r]), alignment)

\* a layout has run and nothing was changed since
LaidOut == lastLayout.op \in {"update_after_move", "update_after_resize"}

\* the left and the right edge of the rows of the last layout
LeftEdge == shape.position.x
RightEdge == shape.position.x + lastLayout.width

\* where the group of Center columns of row r begins when it is centred
\* between the Left and the Right columns of the row
CentredInRemaining(r) ==
    LeftEdge + GroupWidth(r, "Left")
    + (RightEdge - LeftEdge - GroupWidth(r, "Left") - GroupWidth(r, "Right")
       - GroupWidth(r, "Center")) \div 2

\* column c of row r follows the columns of its alignment before it, the
\* first Left column at the left edge, the last Right column ending at the
\* right edge, the first Center column at centre
PlacedFrom(r, c, centre) ==
    LET alignment == rows[r][c].alignment
        start == IF alignment = "Left" THEN LeftEdge
                 ELSE IF alignment = "Right" THEN RightEdge - GroupWidth(r, "Right")
                 ELSE centre
    IN ColumnPosition(r, c).x = start + WidthUpTo(r, c - 1, alignment)

\* C18: after a layout every column of a row stands on the y the row begins
\* at (its top at the row's height above it), and that y is the container's y
\* advanced once per earlier row by that row's height, whatever the number of
\* columns of the earlier rows.
C18_RowsShareBaseline ==
    LaidOut =>
        \A r \in 1 .. Len(rows) : \A c \in 1 .. Len(rows[r]) :
            ColumnPosition(r, c).y = RowY(r) + RowMax(r) - ColumnSize(r, c).height

\* C19: after a layout the Left columns of a row follow each other
\* from the left edge, the Right columns end at the right edge and the Center
\* columns are centred in the space the Left and Right columns leave.
C19_CenterInRemainingSpace ==
    LaidOut =>
        \A r \in 1 .. Len(rows) : \A c \in 1 .. Len(rows[r]) :
            PlacedFrom(r, c, CentredInRemaining(r))

RECURSIVE Columns(_)
\* the columns of the rows, row by row
Columns(rs) == IF rs = <<>> THEN <<>> ELSE Head(rs) \o Columns(Tail(rs))

\* the notification of ContainerMoved or ChildResized is executed in this step
LayoutRuns ==
    /\ notifyQueue # <<>>
    /\ Head(notifyQueue).listener \in {"ContainerMoved", "ChildResized"}
    /\ lastLayout' # lastLayout

\* C20: a layout changes the position of no child itself: it schedules exactly
\* one set-position action per child, and positions change when those actions
\* are executed.
C20_LayoutOnlySchedules ==
    [][LayoutRuns
       => /\ \A c \in 1 .. Len(shapes) : shapes'[c].position = shapes[c].position
          /\ notifyQueue' = Tail(notifyQueue) \o
                 [i \in 1 .. Len(Columns(rows)) |->
                     [listener |-> "SetPosition", source |-> Columns(rows)[i].child]]]_vars

\* C21: add_row changes nothing and returns false when the last row is empty,
\* and otherwise (no row yet, or a last row with columns) appends one empty row
\* and returns true; so no row but the last is ever empty.
C21_NoEmptyInnerRow ==
    /\ \A r \in 1 .. Len(rows) - 1 : rows[r] # <<>>
    /\ lastLayout.op = "add_row" =>
           LET old == lastLayout.before IN
           IF Len(old) > 0 /\ old[Len(old)] = <<>>
           THEN ~lastLayout.ret /\ rows = old
           ELSE lastLayout.ret /\ rows = Append(old, <<>>)

\* add_row was called on a container whose last row is empty and that has a
\* row of columns before it
C21_Witness ==
    /\ lastLayout.op = "add_row"
    /\ ~lastLayout.ret
    /\ Len(rows) >= 2
    /\ rows[Len(rows)] = <<>>

(***************************************************************************)
(* Further properties of the scheduler                                     *)
(***************************************************************************)
\* C28: when Actions::execute returns Ok the active buffer and the swap buffer
\* are both empty.
C28_OkLeavesNothingQueued ==
    [][(pc = "loop" /\ pc' = "idle" /\ result' = "Ok")
       => (scheduler' = <<>> /\ buffer' = <<>>)]_vars

\* C29: every scheduled action is executed at most once, also over calls of
\* execute that follow a call that returned an action's error.
C29_AtMostOnce ==
    \A i, j \in 1 .. Len(log) : log[i].uid = log[j].uid => i = j

(***************************************************************************)
(* Further properties of the button                                        *)
(***************************************************************************)
\* the ClickHandler action of a Pressed event is executed in this step
PressHandled ==
    /\ handlerQueue # <<>>
    /\ Head(handlerQueue).handler = "ClickHandler"
    /\ Head(handlerQueue).event.kind = "Pressed"
    /\ handlerQueue' = Tail(handlerQueue)

\* C30: a Pressed event outside the bounds leaves pressed as it is, and pressed
\* turns from false to true only when a Pressed event within the bounds is
\* handled.
C30_PressOutsideDoesNotArm ==
    [][/\ (PressHandled /\ ~HandledWithin) => pressed' = pressed
       /\ (~pressed /\ pressed') => (PressHandled /\ HandledWithin)]_vars

\* a press outside the bounds was handled by a button that was not pressed
C30_Witness ==
    /\ lastHandled.handler = "ClickHandler"
    /\ lastHandled.kind = "Pressed"
    /\ ~lastHandled.contained
    /\ Len(clicks) >= 1
    /\ ~pressed

(***************************************************************************)
(* Further properties of the arena                                         *)
(***************************************************************************)
\* C40: the free set of an arena is exactly the set of the ids below the
\* buffer length whose slot is empty: no occupied id and no id at or beyond
\* the buffer length is in it.
C40_FreeSetIsTheHoles ==
    \A name \in ArenaNames :
        arenas[name].free =
            {id \in 0 .. Len(arenas[name].buffer) - 1 :
                IsNone(arenas[name].buffer[id + 1])}

\* with holes at 0 and 1 an insert has taken id 0 and left 1 in the free set
C40_Witness ==
    /\ last.op = "insert"
    /\ last.retId = 0
    /\ arenas[last.arena].free = {1}
    /\ Len(arenas[last.arena].buffer) = 3

(***************************************************************************)
(* Further properties of the bounds                                        *)
(***************************************************************************)
\* C34: Bounds::new(x1, x2, y1, y2) has left <= right and bottom <= top for
\* every order of its arguments, with {left, right} = {x1, x2} and
\* {bottom, top} = {y1, y2}.
C34_BoundsNormalised ==
    lastSpatial.op = "Bounds::new" =>
        /\ lastSpatial.ret.left <= lastSpatial.ret.right
        /\ lastSpatial.ret.bottom <= lastSpatial.ret.top
        /\ {lastSpatial.ret.left, lastSpatial.ret.right} = {lastSpatial.x1, lastSpatial.x2}
        /\ {lastSpatial.ret.bottom, lastSpatial.ret.top} = {lastSpatial.y1, lastSpatial.y2}

\* a box was made from corners given in descending order on both axes
C34_Witness ==
    /\ lastSpatial.op = "Bounds::new"
    /\ lastSpatial.x1 > lastSpatial.x2
    /\ lastSpatial.y1 > lastSpatial.y2
    /\ lastSpatial.ret.left = lastSpatial.x2
    /\ lastSpatial.ret.top = lastSpatial.y1

(***************************************************************************)
(* Further properties of the manager and of decoration                     *)
(***************************************************************************)
\* the widgets that hold the component id of a capability
Holders(m, kind, id) ==
    {w \in WidgetIds : IsSome(WidgetOf(m, w)) /\ WidgetOf(m, w)[1][kind] = Some(id)}

\* C38: a component handed to the builder of a widget id that is not in the
\* widget arena is not inserted: every occupied slot of a capability arena is
\* referenced by exactly one existing widget.
C38_NoOrphanedComponent ==
    \A kind \in Capabilities :
        \A id \in Occupied(manager.components[kind]) :
            Cardinality(Holders(manager, kind, id)) = 1

\* the handlers registered on the component of a capability of a widget
HandlersOf(m, kind, widget_id) ==
    IF Component(m, kind, widget_id).result = "Ok"
    THEN Component(m, kind, widget_id).ret[1].handlers
    ELSE <<>>

\* the widget has a component of each of the capabilities
HasAll(m, kinds, widget_id) ==
    \A kind \in kinds : Component(m, kind, widget_id).result = "Ok"

\* C32: a decoration attaches every prerequisite first: when
\* MouseOverTarget::decorate returns Ok the widget has a Spatial, a
\* MouseOverTarget and a MouseMotionTarget with the hit-test handler on it; when
\* Button::decorate returns Ok the widget has Spatial, MouseButtonTarget,
\* MouseOverTarget and Button, with one highlight and one click handler.
C32_DecorateAttachesPrerequisites ==
    \A widget_id \in WidgetIds :
        /\ LET r == Decorate("mouse_over_target", manager, hover, widget_id) IN
           r.result = "Ok" =>
               /\ HasAll(r.manager, {"spatial", "mouse_motion_target"}, widget_id)
               /\ HoverComponent(r.manager, r.hover, widget_id).result = "Ok"
               /\ HandlersOf(r.manager, "mouse_motion_target", widget_id) =
                      <<"CheckMouseOverHandler">>
        /\ LET r == Decorate("button", manager, hover, widget_id) IN
           r.result = "Ok" =>
               /\ HasAll(r.manager, {"spatial", "mouse_button_target", "button"},
                         widget_id)
               /\ HoverComponent(r.manager, r.hover, widget_id).result = "Ok"
               /\ HoverComponent(r.manager, r.hover, widget_id).ret[1].handlers =
                      <<"HighlightHandler">>
               /\ HandlersOf(r.manager, "mouse_button_target", widget_id) =
                      <<"ClickHandler">>

(***************************************************************************)
(* Further properties of the spatial component                             *)
(***************************************************************************)
\* C33: every change of the position of a Spatial, made by set_position or by
\* an executed set-position action, schedules the action of each move listener
\* registered on the Spatial.
C33_EveryMoveNotifies ==
    [][spatial'.position # spatial.position =>
          \E k \in {0, 1} :
              context' = ListenersNotify(spatial.move_listeners, SpatialId,
                                         SubSeq(context, k + 1, Len(context)))]_vars

(***************************************************************************)
(* Further properties of the button                                        *)
(***************************************************************************)
\* C31: highlighted is true after an Entered event is handled and false after
\* an Exited event is handled, and once every scheduled handler action has
\* executed highlighted equals the within flag of the mouse over target.
C31_HighlightFollowsHover ==
    /\ lastHandled.handler = "HighlightHandler" =>
           /\ lastHandled.kind \in {"Entered", "Exited"}
           /\ highlighted = (lastHandled.kind = "Entered")
    /\ handlerQueue = <<>> => highlighted = within

\* the pointer entered and left: both events are handled and nothing is pending
C31_Witness ==
    /\ handlerQueue = <<>>
    /\ overs = <<"Entered", "Exited">>
    /\ lastHandled.handler = "HighlightHandler"
    /\ lastHandled.kind = "Exited"
    /\ ~highlighted /\ ~within

(***************************************************************************)
(* Properties of Resources                                                 *)
(***************************************************************************)
\* C37: insert returns Err(Duplicate) exactly when the name is already in the
\* set and then leaves the set unchanged; otherwise it pushes the resource,
\* returns the next sequential id and maps the name to it; insert and
\* insert_from accept and reject the same names.
C37_InsertRejectsDuplicates ==
    [][/\ lastResource'.op = "insert" =>
            LET name == lastResource'.name
            IN IF name \in DOMAIN resources.by_name
               THEN /\ lastResource'.ret = Duplicate
                    /\ resources' = resources
               ELSE /\ lastResource'.ret = [result |-> "Ok", id |-> Len(resources.buffer)]
                    /\ resources'.buffer = Append(resources.buffer, lastResource'.resource)
                    /\ resources'.by_name =
                           ByNameInsert(resources.by_name, name, Len(resources.buffer))
       /\ \A name \in ResourceNames, resource \in ResourceValues :
              (ResourcesInsert(resources, name, resource).ret = Duplicate)
                  <=> (ResourcesInsertFrom(resources, name, Some(resource)).ret = Duplicate)]_vars

(***************************************************************************)
(* Properties of nested containers                                         *)
(***************************************************************************)
\* the (child, listener id) pairs of the columns of the living containers
ColumnListeners(cs) ==
    UNION {{<<NestColumns(cs[c].rows)[i].child, NestColumns(cs[c].rows)[i].listener_id, c>> :
                i \in 1 .. Len(NestColumns(cs[c].rows))} : c \in NestContainers}

\* the (shape, listener id, container) triples of the ChildResized listeners
\* registered on the shapes
ResizeListeners(ss) ==
    UNION {{<<id, pair[1], pair[2].container>> :
                pair \in {q \in Pairs(ss[id].on_resize) : q[2].type = "ChildResized"}} :
               id \in NestShapeIds}

\* the other resize listeners registered on the shapes
OtherListeners(ss) ==
    [id \in NestShapeIds |-> {q \in Pairs(ss[id].on_resize) : q[2].type = "Other"}]

\* C39: every column holds one resize listener of its own registered on its
\* child, the resize listeners of containers registered on a shape are those
\* of the columns that hold it, so dropping a container leaves the listeners
\* of the child as they were before add_column, and an add_column that fails
\* changes neither the rows nor the listeners.
C39_ColumnOwnsItsListener ==
    [][/\ ResizeListeners(nshapes') = ColumnListeners(ncontainers')
       /\ Cardinality(ColumnListeners(ncontainers')) = ColumnCount(ncontainers')
       /\ lastNest'.op \in {"add_column", "drop"} =>
              OtherListeners(nshapes') = OtherListeners(nshapes)
       /\ (lastNest'.op = "add_column" /\ lastNest'.ret # "Ok") =>
              (ncontainers' = ncontainers /\ nshapes' = nshapes)]_vars

\* the containers that hold shape id, directly or through nested containers
Ancestors(cs, id) ==
    {c \in NestContainers : id \in Below(cs, {c}, Cardinality(NestShapeIds))}

\* container 1 holds the shape of container 2, which holds the leaf
Nested(cs) == 2 \in ChildrenOf(cs, 1) /\ 3 \in ChildrenOf(cs, 2)

\* the containers the change is about: those above a resized shape, and the
\* container whose shape was moved with those above it
Concerned(cs, change) ==
    IF change.op = "resize" THEN Ancestors(cs, change.shape)
    ELSE IF change.shape \in NestContainers
         THEN {change.shape} \cup Ancestors(cs, change.shape)
         ELSE {}

\* container c has the combined size of its children
SizeSettled(c) ==
    nshapes[c].preferred_size = NewSize(ncontainers[c].rows, SizesOf(nshapes))

\* both buffers of the system are empty
NothingScheduled == nactive = <<>> /\ nqueue = <<>>

\* C35 as stated: in an acyclic nesting, the notifications started by one
\* resize or one move are all executed without ActionLoop, and when nothing
\* is scheduled any more every container the change concerns that has
\* children has the combined size of its children.
C35_CascadeSettlesSizes ==
    (Acyclic(ncontainers) /\ nchange # NoChange) =>
        /\ nerror # "ActionLoop"
        /\ NothingScheduled =>
               \A c \in Concerned(ncontainers, nchange) :
                   ChildrenOf(ncontainers, c) # {} => SizeSettled(c)

\* C35: in an acyclic nesting, the notifications started by one resize or one
\* move are all executed within MaxNestRounds rounds without ActionLoop; when
\* nothing is scheduled any more, after a resize every container above the
\* resized shape has the combined size of its children, and after a move
\* every preferred size is what it was before the move.
C35_CascadeSettles ==
    (Acyclic(ncontainers) /\ nchange # NoChange) =>
        /\ nerror # "ActionLoop"
        /\ nround <= MaxNestRounds
        /\ NothingScheduled =>
               IF nchange.op = "resize"
               THEN \A c \in Ancestors(ncontainers, nchange.shape) : SizeSettled(c)
               ELSE SizesOf(nshapes) = nchange.sizes

\* the leaf was resized and both containers above it have run their layout
\* in the three rounds the nesting needs
C35_Witness ==
    /\ Nested(ncontainers) /\ Acyclic(ncontainers)
    /\ nchange.op = "resize" /\ nchange.shape = 3
    /\ NothingScheduled
    /\ nround = 3
    /\ nerror = "Ok"
    /\ nshapes[3].preferred_size = Dimension(4, 2)
    /\ nshapes[1].preferred_size = Dimension(4, 2)

\* C36: in an acyclic nesting no notification or layout pass executed by the
\* system returns a BorrowError, panics on the borrow of the system, or is
\* refused the borrow of a shape or of a container.
C36_NoBorrowError ==
    Acyclic(ncontainers) => (nerror \notin {"BorrowError", "Panic"} /\ ~nconflict)

\* the outer container was moved and both containers have run their layout
C36_Witness ==
    /\ Nested(ncontainers) /\ Acyclic(ncontainers)
    /\ nchange.op = "move" /\ nchange.shape = 1
    /\ NothingScheduled
    /\ nround = 2
    /\ nshapes[3].position = Position(2, 4)
    /\ nerror = "Ok" /\ ~nconflict

====
